---- MODULE Spec2Model ----
(***************************************************************************)
(* Verification model of the HP P1102w printer diagnostic tool             *)
(* (src/main.cpp): the lpstat job-listing parser, its timestamp            *)
(* extraction, the age/highlight engine of the queue dialog and the        *)
(* auto-recovery assessment of check_cups_status.                          *)
(*                                                                         *)
(* A std::string is a sequence of one-character strings.  A std::optional  *)
(* is a record [has, t].  A time_point is [days, secs]: whole days since    *)
(* the epoch and seconds of that day, counted in a zone without offset.    *)
(***************************************************************************)
EXTENDS Integers, Sequences, FiniteSets, TLC

VARIABLES
    \* ---- parse_lpstat_jobs (one run of the line loop)
    text,          \* the input text
    lines,         \* lines std::getline has still to deliver
    current,       \* PrintJob current
    active,        \* bool active
    jobs,          \* std::vector<PrintJob> jobs
    ppc,           \* "idle" | "loop" | "done"
    \* ---- parse_datetime_from_line (one call)
    rest,          \* the argument
    dt_tm,         \* the std::tm handed to std::mktime, [ok, i, tm]
    dt_result,     \* the returned optional time_point
    dpc,           \* "idle" | "call" | "done"
    \* ---- CUPS as the commands show it
    cups_state,    \* what lpstat -p prints
    cups_long,     \* what lpstat -l -p prints
    cups_queue,    \* what lpstat -o -l prints: the listing of the pending jobs
    cups_old,      \* lpstat does not know the option -W
    popen_ok,      \* popen can start a command
    cmd_log,       \* the commands handed to popen since control last came
                   \* back from the event loop
    \* ---- PrinterDiagnostic
    m_show_raw,
    m_strip_global,
    m_strip_hplip,
    m_buffer,      \* the text the last callback appended to the output view
    cups_ready,    \* the return value of check_cups_status
    cpc,           \* "idle" | "call" | "done"
    \* ---- QueueDialog
    now,           \* what system_clock::now() gave the last refresh
    m_spin_age,    \* the value of the spin button "Highlight age"
    m_store,       \* the rows of the list store
    m_status,      \* the text of the status label
    qpc,           \* "closed" | "open" | "confirm" | "crashed"
    \* ---- CupsClient (one call)
    cups_reject,   \* what an lpstat that does not know -W prints instead
    arg_user,      \* the argument of cancel_all_from_user
    arg_job_id,    \* the argument of cancel_job
    ret_jobs,      \* the return value of get_jobs
    ret_name,      \* the return value of get_printer_friendly_name
    kpc,           \* "idle" | "call" | the name of the function that returned
    \* ---- QueueDialog: buttons, confirmation prompt and timer
    selected,      \* the selected row of the tree view, 0 when none is selected
    m_spin_refresh, \* the value of the spin button "Auto-refresh (sec)"
    timers,        \* the periods of the timeout sources the main loop holds
    m_timer_conn,  \* the source m_timer_conn is connected to, 0 when to none
    pending,       \* the handler waiting in confirm_action, and its locals
    resp,          \* "none", or what the last confirmation prompt returned
    refreshing,    \* "", or what has called the refresh() that is running
    orphans,       \* the timeout sources left by dialogs that were destroyed
    \* ---- PrinterDiagnostic: configuration file and continuous wake
    cfg_file,      \* the file config.ini
    m_wake_enabled,
    m_wake_interval_minutes,
    m_spin_wake_interval, \* the value of the spin button of the interval
    wake_timers,   \* the periods of the wake timeout sources the main loop holds
    m_wake_timer_conn, \* the source m_wake_timer_conn is connected to, 0 when
                   \* to none
    m_lbl_wake_status, \* the text of the wake status label
    wpc            \* "idle" | "start" | "loaded" | "shown" | "hidden"

parse_vars == <<text, lines, current, active, jobs, ppc>>
date_vars  == <<rest, dt_tm, dt_result, dpc>>
cups_vars  == <<cups_state, cups_long, cups_queue, cups_old, popen_ok, cmd_log>>
diag_vars  == <<m_show_raw, m_strip_global, m_strip_hplip, m_buffer, cups_ready,
                cpc>>
dialog_vars == <<now, m_spin_age, m_store, m_status, qpc>>
client_vars == <<cups_reject, arg_user, arg_job_id, ret_jobs, ret_name, kpc>>
queue_vars == <<selected, m_spin_refresh, timers, m_timer_conn, pending, resp,
                refreshing, orphans>>
wake_vars  == <<cfg_file, m_wake_enabled, m_wake_interval_minutes,
                m_spin_wake_interval, wake_timers, m_wake_timer_conn,
                m_lbl_wake_status, wpc>>

(***************************************************************************)
(* Bounds                                                                  *)
(***************************************************************************)
MaxTextLen == 9      \* characters of a listing text fed to the line loop
MaxTokens  == 4      \* free tokens of a status text fed to the timestamp scan
MaxRows    == 2      \* jobs of a listing shown in the queue dialog

(***************************************************************************)
(* Strings                                                                 *)
(***************************************************************************)
SeqsUpTo(S, n) == UNION {[1..k -> S] : k \in 0..n}

\* std::isspace in the "C" locale (the vertical tab has no TLA+ escape)
IsSpace(c) == c \in {" ", "\t", "\n", "\r", "\f"}

RECURSIVE SkipWs(_)
SkipWs(s) == IF s # <<>> /\ IsSpace(Head(s)) THEN SkipWs(Tail(s)) ELSE s

RECURSIVE DropTrailingWs(_)
DropTrailingWs(s) ==
    IF s # <<>> /\ IsSpace(s[Len(s)])
    THEN DropTrailingWs(SubSeq(s, 1, Len(s) - 1))
    ELSE s

trim_copy(s) == DropTrailingWs(SkipWs(s))

\* the characters operator>> extracts into a std::string: up to the next
\* whitespace character
RECURSIVE TakeWord(_)
TakeWord(s) ==
    IF s = <<>> \/ IsSpace(Head(s)) THEN <<>>
    ELSE <<Head(s)>> \o TakeWord(Tail(s))

DropN(s, n) == SubSeq(s, n + 1, Len(s))

\* for (std::string t; iss >> t;) tokens.push_back(t);
RECURSIVE Tokenize(_)
Tokenize(s) ==
    LET s1 == SkipWs(s)
        w  == TakeWord(s1)
    IN  IF s1 = <<>> THEN <<>>
        ELSE <<w>> \o Tokenize(DropN(s1, Len(w)))

\* while (std::getline(ss, line)): the pieces between '\n' characters; an
\* empty piece after the last '\n' is not delivered
RECURSIVE TakeLine(_)
TakeLine(s) ==
    IF s = <<>> \/ Head(s) = "\n" THEN <<>>
    ELSE <<Head(s)>> \o TakeLine(Tail(s))

RECURSIVE GetLines(_)
GetLines(s) ==
    IF s = <<>> THEN <<>>
    ELSE LET l == TakeLine(s)
         IN  <<l>> \o GetLines(DropN(s, Len(l) + 1))

\* std::string::find(needle) != npos
Contains(s, needle) ==
    \E k \in 0..(Len(s) - Len(needle)) :
        SubSeq(s, k + 1, k + Len(needle)) = needle

RECURSIVE Join(_)
Join(toks) ==
    IF toks = <<>> THEN <<>>
    ELSE IF Len(toks) = 1 THEN toks[1]
    ELSE toks[1] \o <<" ">> \o Join(Tail(toks))

(***************************************************************************)
(* std::get_time (libstdc++ time_get::get) and std::mktime                 *)
(***************************************************************************)
DigitValue ==
    "0" :> 0 @@ "1" :> 1 @@ "2" :> 2 @@ "3" :> 3 @@ "4" :> 4 @@
    "5" :> 5 @@ "6" :> 6 @@ "7" :> 7 @@ "8" :> 8 @@ "9" :> 9

IsDigit(c) == c \in DOMAIN DigitValue

\* time_get::_M_extract_num: up to len digits, stopping before the digit
\* that takes the value above max
RECURSIVE ExtractNumLoop(_, _, _, _, _)
ExtractNumLoop(s, i, value, max, len) ==
    IF s = <<>> \/ i >= len \/ ~IsDigit(Head(s))
    THEN [i |-> i, value |-> value, rest |-> s]
    ELSE LET v == value * 10 + DigitValue[Head(s)]
         IN  IF v > max THEN [i |-> i, value |-> v, rest |-> s]
             ELSE ExtractNumLoop(Tail(s), i + 1, v, max, len)

\* the test that closes _M_extract_num, on the loop's outcome r
ExtractNumResult(r, min, max) ==
    [ok   |-> r.i > 0 /\ r.value >= min /\ r.value <= max,
     val  |-> r.value,
     rest |-> r.rest]

ExtractNum(s, min, max, len) ==
    ExtractNumResult(ExtractNumLoop(s, 0, 0, max, len), min, max)

months ==
    << <<"J","a","n">>, <<"F","e","b">>, <<"M","a","r">>, <<"A","p","r">>,
       <<"M","a","y">>, <<"J","u","n">>, <<"J","u","l">>, <<"A","u","g">>,
       <<"S","e","p">>, <<"O","c","t">>, <<"N","o","v">>, <<"D","e","c">> >>

is_month(t) == \E k \in 1..12 : t = months[k]

\* %b on a string that holds a month token followed by a blank
ExtractMonth(s) ==
    IF Len(s) >= 3 /\ is_month(SubSeq(s, 1, 3))
    THEN [ok   |-> TRUE,
          val  |-> (CHOOSE k \in 1..12 : months[k] = SubSeq(s, 1, 3)) - 1,
          rest |-> DropN(s, 3)]
    ELSE [ok |-> FALSE, val |-> 0, rest |-> s]

ZeroTm == [tm_mday |-> 0, tm_mon |-> 0, tm_year |-> 0,
           tm_hour |-> 0, tm_min |-> 0, tm_sec |-> 0]

\* the extracted number r.val, less off, stored in a field of tm
StoreField(r, tm, field, off) ==
    [ok |-> r.ok, rest |-> r.rest, tm |-> [tm EXCEPT ![field] = r.val - off]]

\* one conversion specification of the format
Convert(f, s, tm) ==
    IF f = "%d" THEN
        StoreField(ExtractNum(IF IsSpace(Head(s)) THEN Tail(s) ELSE s, 1, 31, 2),
                   tm, "tm_mday", 0)
    ELSE IF f = "%b" THEN StoreField(ExtractMonth(s), tm, "tm_mon", 0)
    ELSE IF f = "%Y" THEN StoreField(ExtractNum(s, 0, 9999, 4), tm, "tm_year", 1900)
    ELSE IF f = "%H" THEN StoreField(ExtractNum(s, 0, 23, 2), tm, "tm_hour", 0)
    ELSE IF f = "%M" THEN StoreField(ExtractNum(s, 0, 59, 2), tm, "tm_min", 0)
    ELSE StoreField(ExtractNum(s, 0, 60, 2), tm, "tm_sec", 0)

FormatHMS == <<"%d", " ", "%b", " ", "%Y", " ", "%H", ":", "%M", ":", "%S">>
FormatHM  == <<"%d", " ", "%b", " ", "%Y", " ", "%H", ":", "%M">>

\* time_get::get: the format is followed while the stream is good; an input
\* that ends right after a conversion sets eofbit only and ends the loop
RECURSIVE get_time(_, _, _)
\* the loop after the conversion r of the head of fmt
AfterConvert(r, fmt, tm) ==
    IF ~r.ok THEN [fail |-> TRUE, tm |-> tm]
    ELSE IF r.rest = <<>> THEN [fail |-> FALSE, tm |-> r.tm]
    ELSE get_time(r.rest, Tail(fmt), r.tm)

get_time(s, fmt, tm) ==
    IF fmt = <<>> THEN [fail |-> FALSE, tm |-> tm]
    ELSE IF s = <<>> THEN [fail |-> TRUE, tm |-> tm]
    ELSE IF Head(fmt) = " " THEN get_time(SkipWs(s), Tail(fmt), tm)
    ELSE IF Head(fmt) = ":" THEN
        IF Head(s) = ":" THEN get_time(Tail(s), Tail(fmt), tm)
        ELSE [fail |-> TRUE, tm |-> tm]
    ELSE AfterConvert(Convert(Head(fmt), s, tm), fmt, tm)

\* days from 1970-01-01 to the civil date (m in 1..12; d may run past the
\* end of the month, as std::mktime normalises it)
DaysFromCivil(y, m, d) ==
    LET y1  == IF m <= 2 THEN y - 1 ELSE y
        era == y1 \div 400
        yoe == y1 - era * 400
        mp  == IF m > 2 THEN m - 3 ELSE m + 9
        doy == (153 * mp + 2) \div 5 + d - 1
        doe == yoe * 365 + yoe \div 4 - yoe \div 100 + doy
    IN  era * 146097 + doe - 719468

\* std::mktime with tm_isdst = -1, in a zone without offset: the time_t as
\* [days, secs] = whole days since the epoch and seconds of that day
\* (time_t is 64 bits wide, the pair keeps every year 0..9999 exact)
mktime(tm) ==
    LET sod == tm.tm_hour * 3600 + tm.tm_min * 60 + tm.tm_sec
    IN  [days |-> DaysFromCivil(tm.tm_year + 1900, tm.tm_mon + 1, tm.tm_mday)
                      + sod \div 86400,
         secs |-> sod % 86400]

\* (std::time_t)-1
TimeError == [days |-> -1, secs |-> 86399]

(***************************************************************************)
(* CupsClient::parse_datetime_from_line                                    *)
(***************************************************************************)
TimeZero == [days |-> 0, secs |-> 0]

nullopt == [has |-> FALSE, t |-> TimeZero]

Some(t) == [has |-> TRUE, t |-> t]

\* ampm_hour with the PM branch adding 12 to hour 12 as well
ampm_hour_pm_always(hour, ampm) ==
    IF ampm = <<"A", "M">>
    THEN (IF hour = 12 THEN 0 ELSE hour)
    ELSE hour + 12

\* the 12-hour reinterpretation of tm_hour when tokens[i + 3] is AM or PM
ampm_hour(hour, ampm) ==
    IF ampm = <<"A", "M">>
    THEN (IF hour = 12 THEN 0 ELSE hour)
    ELSE (IF hour # 12 THEN hour + 12 ELSE hour)

\* dt >> std::get_time(&tm, "%d %b %Y %H:%M:%S"), and on failure the same
\* text read into tm2 with "%d %b %Y %H:%M"
RetryWithoutSeconds(r1, dt) ==
    IF r1.fail THEN get_time(dt, FormatHM, ZeroTm) ELSE r1

ParseDayTime(dt) == RetryWithoutSeconds(get_time(dt, FormatHMS, ZeroTm), dt)

\* if (i + 3 < tokens.size()) { ... tm.tm_hour = hour; }
AdjustAmPm(tm, tokens, i) ==
    IF i + 3 <= Len(tokens) /\ tokens[i + 3] \in {<<"A", "M">>, <<"P", "M">>}
    THEN [tm EXCEPT !.tm_hour = ampm_hour(@, tokens[i + 3])]
    ELSE tm

\* std::mktime and the test of its result
CheckedTime(tt, tm, i) ==
    IF tt = TimeError
    THEN [ok |-> FALSE, i |-> i, tm |-> ZeroTm, tt |-> TimeZero]
    ELSE [ok |-> TRUE, i |-> i, tm |-> tm, tt |-> tt]

ConvertCandidate(tm, i) == CheckedTime(mktime(tm), tm, i)

CandidateText(tokens, i) ==
    tokens[i - 1] \o <<" ">> \o tokens[i] \o <<" ">> \o tokens[i + 1]
        \o <<" ">> \o tokens[i + 2]

ParsedCandidate(r, tokens, i) ==
    IF r.fail
    THEN [ok |-> FALSE, i |-> i, tm |-> ZeroTm, tt |-> TimeZero]
    ELSE ConvertCandidate(AdjustAmPm(r.tm, tokens, i), i)

\* TryCandidate without the test that the time token contains ':'
TryCandidate_nocolon(tokens, i) ==
    ParsedCandidate(ParseDayTime(CandidateText(tokens, i)), tokens, i)

\* the body of one iteration that got past the month test: [ok, i, tm, tt]
TryCandidate(tokens, i) ==
    IF ~Contains(tokens[i + 2], <<":">>)
    THEN [ok |-> FALSE, i |-> i, tm |-> ZeroTm, tt |-> TimeZero]
    ELSE ParsedCandidate(ParseDayTime(CandidateText(tokens, i)), tokens, i)

\* for (size_t i = 0; i < tokens.size(); ++i), with i counted from 1
RECURSIVE ScanTokens(_, _)
\* return on the first candidate that converts, continue otherwise
ReturnOrContinue(r, tokens, i) ==
    IF r.ok THEN r ELSE ScanTokens(tokens, i + 1)

ScanTokens(tokens, i) ==
    IF i > Len(tokens) THEN [ok |-> FALSE, i |-> 0, tm |-> ZeroTm, tt |-> TimeZero]
    ELSE IF ~is_month(tokens[i]) THEN ScanTokens(tokens, i + 1)
    ELSE IF i = 1 \/ i + 2 > Len(tokens) THEN ScanTokens(tokens, i + 1)
    ELSE ReturnOrContinue(TryCandidate(tokens, i), tokens, i)

parse_datetime_scan(s) == ScanTokens(Tokenize(s), 1)

\* std::chrono::system_clock::from_time_t: the clock counts nanoseconds in
\* 64 bits, so a time_t outside -9223372036..9223372036 (outside the years
\* 1678..2262) overflows the count, which is undefined; the result is then
\* Unspecified, and TimePointOutcomes gives the instants it may stand for
ClockMinDays == -106752
ClockMinSecs == 764
ClockMaxDays == 106751
ClockMaxSecs == 85636

InClockRange(tt) ==
    /\ (tt.days > ClockMinDays \/ (tt.days = ClockMinDays /\ tt.secs >= ClockMinSecs))
    /\ (tt.days < ClockMaxDays \/ (tt.days = ClockMaxDays /\ tt.secs <= ClockMaxSecs))

Unspecified == [days |-> 0, secs |-> -1]

from_time_t(tt) == IF InClockRange(tt) THEN tt ELSE Unspecified

ArbitraryInstants ==
    {[days |-> -77185, secs |-> 42522], [days |-> 0, secs |-> 0],
     [days |-> 19727, secs |-> 36000], [days |-> 20100, secs |-> 0]}

TimePointOutcomes(opt) ==
    IF opt.has /\ opt.t = Unspecified
    THEN {Some(x) : x \in ArbitraryInstants}
    ELSE {opt}

\* return std::chrono::system_clock::from_time_t(tt), or std::nullopt
ScanResult(r) == IF r.ok THEN Some(from_time_t(r.tt)) ELSE nullopt

parse_datetime_from_line(s) == ScanResult(parse_datetime_scan(s))

(***************************************************************************)
(* CupsClient::parse_lpstat_jobs                                           *)
(***************************************************************************)
EmptyJob == [job_id |-> <<>>, user |-> <<>>, file |-> <<>>, status |-> <<>>,
             submitted_at |-> nullopt]

\* flush that forgets to clear active
flush_keep_active(st) ==
    [jobs    |-> IF st.active /\ st.current.job_id # <<>>
                 THEN Append(st.jobs, st.current) ELSE st.jobs,
     current |-> EmptyJob,
     active  |-> st.active]

\* flush that emits current without testing active and job_id
flush_unguarded(st) ==
    [jobs    |-> Append(st.jobs, st.current),
     current |-> EmptyJob,
     active  |-> FALSE]

\* the lambda flush, on the locals [jobs, current, active]
flush(st) ==
    [jobs    |-> IF st.active /\ st.current.job_id # <<>>
                 THEN Append(st.jobs, st.current) ELSE st.jobs,
     current |-> EmptyJob,
     active  |-> FALSE]

IsBlankLine(line) == trim_copy(line) = <<>>

IsContinuationLine(line) == line # <<>> /\ IsSpace(line[1])

\* HeaderFields that keeps the remainder of the line untrimmed
HeaderFields_untrimmed(line) ==
    LET s1  == SkipWs(line)
        id  == TakeWord(s1)
        s2  == SkipWs(DropN(s1, Len(id)))
        usr == TakeWord(s2)
        rst == IF usr = <<>> THEN <<>> ELSE DropN(s2, Len(usr))
    IN  [job_id |-> id, user |-> usr, rest |-> rst]

\* ls >> current.job_id >> current.user; std::getline(ls, rest); trim
HeaderFields(line) ==
    LET s1  == SkipWs(line)
        id  == TakeWord(s1)
        s2  == SkipWs(DropN(s1, Len(id)))
        usr == TakeWord(s2)
        rst == IF usr = <<>> THEN <<>> ELSE trim_copy(DropN(s2, Len(usr)))
    IN  [job_id |-> id, user |-> usr, rest |-> rst]

\* a header line that opens its record without emitting the open one
header_line_unflushed(st, line) ==
    LET h == HeaderFields(line)
    IN  [jobs    |-> st.jobs,
         current |-> [job_id |-> h.job_id, user |-> h.user, file |-> <<>>,
                      status |-> h.rest,
                      submitted_at |-> parse_datetime_from_line(h.rest)],
         active  |-> TRUE]

header_line(st, line) ==
    LET f == flush(st)
        h == HeaderFields(line)
    IN  [jobs    |-> f.jobs,
         current |-> [job_id |-> h.job_id, user |-> h.user, file |-> <<>>,
                      status |-> h.rest,
                      submitted_at |-> parse_datetime_from_line(h.rest)],
         active  |-> TRUE]

\* continuation_line without the test that a record is open
continuation_line_unguarded(st, line) ==
    LET cont == trim_copy(line)
    IN  IF cont = <<>> THEN st
        ELSE [st EXCEPT !.current.file =
                 (IF @ # <<>> THEN @ \o <<" ", "|", " ">> ELSE @) \o cont]

continuation_line(st, line) ==
    IF ~st.active THEN st
    ELSE LET cont == trim_copy(line)
         IN  IF cont = <<>> THEN st
             ELSE [st EXCEPT !.current.file =
                      (IF @ # <<>> THEN @ \o <<" ", "|", " ">> ELSE @) \o cont]

\* one iteration of while (std::getline(ss, line))
parse_line(st, line) ==
    IF IsBlankLine(line) THEN flush(st)
    ELSE IF ~IsContinuationLine(line) THEN header_line(st, line)
    ELSE continuation_line(st, line)

RECURSIVE ParseLines(_, _)
ParseLines(st, ls) ==
    IF ls = <<>> THEN flush(st).jobs
    ELSE ParseLines(parse_line(st, Head(ls)), Tail(ls))

parse_lpstat_jobs(s) ==
    ParseLines([jobs |-> <<>>, current |-> EmptyJob, active |-> FALSE],
               GetLines(s))

(***************************************************************************)
(* strip_ansi and PrinterDiagnostic::execute_command                       *)
(***************************************************************************)
\* the characters 0x1B and 0x60, strings of their own among the
\* one-character strings
ESC   == "^["
GRAVE == "^'"

\* the characters c with c >= '@' && c <= '~'
FinalBytes ==
    {"@", "A", "B", "C", "D", "E", "F", "G", "H", "I", "J", "K", "L", "M", "N",
     "O", "P", "Q", "R", "S", "T", "U", "V", "W", "X", "Y", "Z", "[", "\\", "]",
     "^", "_", GRAVE, "a", "b", "c", "d", "e", "f", "g", "h", "i", "j", "k", "l",
     "m", "n", "o", "p", "q", "r", "s", "t", "u", "v", "w", "x", "y", "z", "{",
     "|", "}", "~"}

\* the loop of strip_ansi over the rest of the input
RECURSIVE strip_ansi_loop(_, _)
strip_ansi_loop(input, in_escape) ==
    IF input = <<>> THEN <<>>
    ELSE IF Head(input) = ESC THEN strip_ansi_loop(Tail(input), TRUE)
    ELSE IF in_escape
    THEN strip_ansi_loop(Tail(input), Head(input) \notin FinalBytes)
    ELSE <<Head(input)>> \o strip_ansi_loop(Tail(input), FALSE)

strip_ansi(input) == strip_ansi_loop(input, FALSE)

PRINTER_NAME == "HP_LaserJet_Professional_P1102w"

\* a command line is the sequence of the pieces it is concatenated from
CmdPrinterState   == <<"lpstat -p \"", PRINTER_NAME, "\" 2>&1">>
CmdPrinterLong    == <<"lpstat -l -p \"", PRINTER_NAME, "\" 2>&1">>
CmdJobs           == <<"lpstat -W not-completed -o -l 2>&1">>
CmdJobsUnfiltered == <<"lpstat -o -l 2>&1">>
CmdCancelJob(job_id) == <<"cancel '", job_id, "' 2>&1">>
CmdCancelAll      == <<"cancel -a 2>&1">>
CmdPauseQueue     == <<"sudo cupsdisable \"", PRINTER_NAME, "\" 2>&1">>
CmdResumeQueue    == <<"sudo cupsenable \"", PRINTER_NAME, "\" 2>&1">>

\* what the lpstat of CUPS answers to CmdJobs when it lacks the -W option
UnknownOptionReply ==
    <<"l", "p", "s", "t", "a", "t", ":", " ", "U", "n", "k", "n", "o", "w",
      "n", " ", "o", "p", "t", "i", "o", "n", " ", "\"", "W", "\"", "\n">>

\* The operators below take sys, the surroundings a command runs in: what
\* CUPS answers (state, long, queue, old, reject), whether popen succeeds, and the
\* output settings of the PrinterDiagnostic.
Sys ==
    [state |-> cups_state, long |-> cups_long, queue |-> cups_queue,
     old |-> cups_old, reject |-> cups_reject, popen_ok |-> popen_ok,
     m_show_raw |-> m_show_raw,
     m_strip_global |-> m_strip_global, m_strip_hplip |-> m_strip_hplip]

\* what the started command writes to the pipe, read by the fgets loop
Reply(cmd, sys) ==
    IF cmd[1] = CmdPrinterState[1] THEN sys.state
    ELSE IF cmd[1] = CmdPrinterLong[1] THEN sys.long
    ELSE IF cmd[1] = CmdJobs[1]
    THEN (IF sys.old THEN sys.reject ELSE sys.queue)
    ELSE IF cmd[1] = CmdJobsUnfiltered[1] THEN sys.queue
    ELSE <<>>

execute_command(cmd, is_hplip, sys) ==
    IF ~sys.popen_ok THEN <<>>
    ELSE IF sys.m_show_raw THEN Reply(cmd, sys)
    ELSE IF sys.m_strip_global THEN strip_ansi(Reply(cmd, sys))
    ELSE IF is_hplip /\ sys.m_strip_hplip THEN strip_ansi(Reply(cmd, sys))
    ELSE Reply(cmd, sys)

\* the function handed to the CupsClient
m_exec(cmd, sys) == execute_command(cmd, FALSE, sys)

(***************************************************************************)
(* CupsClient                                                              *)
(***************************************************************************)
printer_state_raw(sys) == m_exec(CmdPrinterState, sys)

printer_long_raw(sys) == m_exec(CmdPrinterLong, sys)

\* std::tolower in the "C" locale
LowerOf ==
    "A" :> "a" @@ "B" :> "b" @@ "C" :> "c" @@ "D" :> "d" @@ "E" :> "e" @@
    "F" :> "f" @@ "G" :> "g" @@ "H" :> "h" @@ "I" :> "i" @@ "J" :> "j" @@
    "K" :> "k" @@ "L" :> "l" @@ "M" :> "m" @@ "N" :> "n" @@ "O" :> "o" @@
    "P" :> "p" @@ "Q" :> "q" @@ "R" :> "r" @@ "S" :> "s" @@ "T" :> "t" @@
    "U" :> "u" @@ "V" :> "v" @@ "W" :> "w" @@ "X" :> "x" @@ "Y" :> "y" @@
    "Z" :> "z"

tolower(c) == IF c \in DOMAIN LowerOf THEN LowerOf[c] ELSE c

\* std::transform(out.begin(), out.end(), out.begin(), tolower)
ToLower(s) == [k \in 1..Len(s) |-> tolower(s[k])]

OutOfPaper     == <<"o", "u", "t", " ", "o", "f", " ", "p", "a", "p", "e", "r">>
MediaEmptyDash == <<"m", "e", "d", "i", "a", "-", "e", "m", "p", "t", "y">>
MediaEmpty     == <<"m", "e", "d", "i", "a", " ", "e", "m", "p", "t", "y">>

needles ==
    << <<OutOfPaper, OutOfPaper>>,
       <<MediaEmptyDash, MediaEmptyDash>>,
       <<MediaEmpty, MediaEmpty>> >>

\* for (const auto& p : needles), from needles[k] on
RECURSIVE FindNeedle(_, _)
FindNeedle(out, k) ==
    IF k > Len(needles) THEN [found |-> FALSE, matched_reason |-> <<>>]
    ELSE IF Contains(out, needles[k][1])
    THEN [found |-> TRUE, matched_reason |-> needles[k][2]]
    ELSE FindNeedle(out, k + 1)

\* has_recoverable_reason_hint that searches the text as it is printed
has_recoverable_reason_hint_exact(sys) == FindNeedle(printer_long_raw(sys), 1)

\* [found, matched_reason]: the return value and *matched_reason
has_recoverable_reason_hint(sys) ==
    FindNeedle(ToLower(printer_long_raw(sys)), 1)

queue_disabled(sys) == Contains(printer_state_raw(sys), <<"d", "i", "s", "a", "b", "l",
                                                "e", "d">>)

\* the fallback test without its second alternative
NeedsFallback_unknown_only(out) ==
    Contains(out, <<"U", "n", "k", "n", "o", "w", "n", " ", "o", "p", "t",
                    "i", "o", "n">>)

NeedsFallback(out) ==
    \/ Contains(out, <<"U", "n", "k", "n", "o", "w", "n", " ", "o", "p", "t",
                       "i", "o", "n">>)
    \/ Contains(out, <<"i", "n", "v", "a", "l", "i", "d", " ", "o", "p", "t",
                       "i", "o", "n">>)

\* the commands get_jobs issues, in order
get_jobs_commands(sys) ==
    IF NeedsFallback(m_exec(CmdJobs, sys)) THEN <<CmdJobs, CmdJobsUnfiltered>>
    ELSE <<CmdJobs>>

\* get_jobs that parses what the first command printed
get_jobs_output_primary(sys) == m_exec(CmdJobs, sys)

\* the text get_jobs hands to parse_lpstat_jobs
get_jobs_output(sys) ==
    IF NeedsFallback(m_exec(CmdJobs, sys)) THEN m_exec(CmdJobsUnfiltered, sys)
    ELSE m_exec(CmdJobs, sys)

get_jobs(sys) == parse_lpstat_jobs(get_jobs_output(sys))

\* the command cancel_job hands to m_exec
cancel_job(job_id) == <<CmdCancelJob(job_id)>>

\* the characters of that command: "cancel '" + job_id + "' 2>&1"
cancel_job_text(job_id) ==
    <<"c", "a", "n", "c", "e", "l", " ", "'">> \o job_id \o <<"'", " ", "2",
                                                              ">", "&", "1">>

\* cancel_all_from_user that cancels every job of the listing
RECURSIVE cancel_matching_any_user(_, _)
cancel_matching_any_user(js, user) ==
    IF js = <<>> THEN <<>>
    ELSE cancel_job(Head(js).job_id) \o cancel_matching_any_user(Tail(js), user)

\* for (const auto& j : get_jobs()) if (j.user == user) cancel_job(j.job_id):
\* the commands issued over the jobs js
RECURSIVE cancel_matching(_, _)
cancel_matching(js, user) ==
    IF js = <<>> THEN <<>>
    ELSE (IF Head(js).user = user THEN cancel_job(Head(js).job_id) ELSE <<>>)
             \o cancel_matching(Tail(js), user)

\* the commands cancel_all_from_user(user) issues, in order
cancel_all_from_user(user, sys) ==
    get_jobs_commands(sys) \o cancel_matching(get_jobs(sys), user)

\* std::string::npos, and positions counted from 0
npos == -1

\* s.find(sub), searched from position k on
RECURSIVE FindFrom(_, _, _)
FindFrom(s, sub, k) ==
    IF k + Len(sub) > Len(s) THEN npos
    ELSE IF SubSeq(s, k + 1, k + Len(sub)) = sub THEN k
    ELSE FindFrom(s, sub, k + 1)

find(s, sub) == FindFrom(s, sub, 0)

RECURSIVE FirstNotOfFrom(_, _, _)
FirstNotOfFrom(s, chars, k) ==
    IF k >= Len(s) THEN npos
    ELSE IF s[k + 1] \notin chars THEN k
    ELSE FirstNotOfFrom(s, chars, k + 1)

find_first_not_of(s, chars) == FirstNotOfFrom(s, chars, 0)

RECURSIVE LastNotOfFrom(_, _, _)
LastNotOfFrom(s, chars, k) ==
    IF k < 0 THEN npos
    ELSE IF s[k + 1] \notin chars THEN k
    ELSE LastNotOfFrom(s, chars, k - 1)

find_last_not_of(s, chars) == LastNotOfFrom(s, chars, Len(s) - 1)

\* s.substr(pos) and s.substr(pos, n), for pos <= s.size()
substr_from(s, pos) == SubSeq(s, pos + 1, Len(s))
substr(s, pos, n) == SubSeq(s, pos + 1, IF pos + n > Len(s) THEN Len(s) ELSE pos + n)

DescriptionLabel == <<"D", "e", "s", "c", "r", "i", "p", "t", "i", "o", "n",
                      ":">>

\* if (l != npos && r != npos) desc = desc.substr(l, r - l + 1)
TrimDescription(desc, l, r) ==
    IF l # npos /\ r # npos THEN substr(desc, l, r - l + 1) ELSE desc

\* desc after the trimming step of get_printer_friendly_name
TrimmedDescription(desc) ==
    TrimDescription(desc, find_first_not_of(desc, {" ", "\t"}),
                    find_last_not_of(desc, {" ", "\t", "\r", "\n"}))

\* desc for a line with the label at pos; empty for a line without it
LineDescription(line, pos) ==
    IF pos = npos THEN <<>>
    ELSE TrimmedDescription(substr_from(line, pos + 12))

\* a return value is the sequence of its pieces: the characters of desc, or
\* the one piece PRINTER_NAME
RECURSIVE DescriptionLoop(_)
ReturnOrNextLine(desc, ls) ==
    IF desc # <<>> THEN desc ELSE DescriptionLoop(Tail(ls))

\* while (std::getline(iss, line)) over the lines ls
DescriptionLoop(ls) ==
    IF ls = <<>> THEN <<PRINTER_NAME>>
    ELSE ReturnOrNextLine(
             LineDescription(Head(ls), find(Head(ls), DescriptionLabel)), ls)

get_printer_friendly_name(sys) == DescriptionLoop(GetLines(printer_long_raw(sys)))

(***************************************************************************)
(* PrinterDiagnostic::check_cups_status                                    *)
(***************************************************************************)
\* the marks U+2713, U+2717, U+26A0 and U+2139 that open a printed line
MarkSuccess == "(U+2713) "
MarkError   == "(U+2717) "
MarkWarning == "(U+26A0) "
MarkInfo    == "(U+2139) "

\* what a print function inserts at the end of m_buffer: the tag and the
\* pieces of the text
print_success(s) == [tag |-> "green", text |-> <<MarkSuccess>> \o s \o <<"\n">>]
print_error(s)   == [tag |-> "red", text |-> <<MarkError>> \o s \o <<"\n">>]
print_warning(s) == [tag |-> "yellow", text |-> <<MarkWarning>> \o s \o <<"\n">>]
print_info(s)    == [tag |-> "blue", text |-> <<MarkInfo>> \o s \o <<"\n">>]

\* m_buffer->insert(m_buffer->end(), text)
insert_untagged(s) == [tag |-> "", text |-> s]

MsgEligible(matched_reason) ==
    <<"Auto-Recovery eligible: queue is empty and reason looks recoverable (",
      matched_reason, ").">>

MsgWouldRun ==
    <<"Would run: cupsenable + cupsaccept for this queue (not auto-executed).">>

MsgSkippedJobs ==
    <<"Auto-Recovery skipped: queue is not empty (active/pending jobs present).">>

MsgSkippedReason ==
    <<"Auto-Recovery skipped: reason not recognized as safely recoverable.">>

MsgTip ==
    <<"Tip: If this is truly stale (e.g., you added paper), manually re-enable via CUPS.">>

\* the assessment that runs cupsenable when it finds the queue eligible
AssessRecovery_autofix(js, hint) ==
    IF js = <<>> /\ hint.found
    THEN [lines |-> <<print_success(MsgEligible(hint.matched_reason)),
                      print_info(MsgWouldRun)>>,
          cmds  |-> <<CmdResumeQueue>>]
    ELSE IF js # <<>>
    THEN [lines |-> <<print_warning(MsgSkippedJobs)>>, cmds |-> <<>>]
    ELSE [lines |-> <<print_warning(MsgSkippedReason), print_info(MsgTip)>>,
          cmds  |-> <<>>]

\* the branches on queue_empty and recoverable_hint: the lines printed and
\* the commands issued
AssessRecovery(js, hint) ==
    IF js = <<>> /\ hint.found
    THEN [lines |-> <<print_success(MsgEligible(hint.matched_reason)),
                      print_info(MsgWouldRun)>>,
          cmds  |-> <<>>]
    ELSE IF js # <<>>
    THEN [lines |-> <<print_warning(MsgSkippedJobs)>>, cmds |-> <<>>]
    ELSE [lines |-> <<print_warning(MsgSkippedReason), print_info(MsgTip)>>,
          cmds  |-> <<>>]

\* the branch of a disabled queue, a the outcome of the assessment
DisabledBranch(a, sys) ==
    [ret   |-> FALSE,
     lines |-> <<print_info(<<"Checking CUPS printer queue...">>),
                 print_error(<<"CUPS queue is DISABLED">>),
                 print_warning(<<"Run: sudo cupsenable \"", PRINTER_NAME, "\"">>)>>
               \o a.lines,
     cmds  |-> <<CmdPrinterState>> \o get_jobs_commands(sys)
               \o <<CmdPrinterLong>> \o a.cmds]

\* check_cups_status from the test of result on
StatusBranches(result, sys) ==
    IF Contains(result, <<"i", "d", "l", "e">>)
    THEN [ret   |-> TRUE,
          lines |-> <<print_info(<<"Checking CUPS printer queue...">>),
                      print_success(<<"CUPS queue is idle and ready">>)>>,
          cmds  |-> <<CmdPrinterState>>]
    ELSE IF Contains(result, <<"d", "i", "s", "a", "b", "l", "e", "d">>)
    THEN DisabledBranch(AssessRecovery(get_jobs(sys),
                                       has_recoverable_reason_hint(sys)), sys)
    ELSE [ret   |-> FALSE,
          lines |-> <<print_info(<<"Checking CUPS printer queue...">>),
                      print_warning(<<"Unknown CUPS status">>),
                      insert_untagged(<<result, "\n">>)>>,
          cmds  |-> <<CmdPrinterState>>]

\* [ret, lines, cmds]: the return value, the lines appended to m_buffer and
\* the commands issued
check_cups_status(sys) == StatusBranches(printer_state_raw(sys), sys)

(***************************************************************************)
(* QueueDialog: fmt_age, set_status_line, refresh, apply_highlight_only    *)
(***************************************************************************)
DigitOf == <<"0", "1", "2", "3", "4", "5", "6", "7", "8", "9">>

\* std::to_string(long)
RECURSIVE to_string(_)
to_string(n) ==
    IF n < 0 THEN <<"-">> \o to_string(-n)
    ELSE IF n < 10 THEN <<DigitOf[n + 1]>>
    ELSE to_string(n \div 10) \o <<DigitOf[(n % 10) + 1]>>

\* the quotient q that rounds down, with remainder r, rounded toward zero
TowardZero(q, r) == IF q < 0 /\ r # 0 THEN q + 1 ELSE q

\* duration_cast<minutes>(now - t).count() for instants less than 292 years
\* apart, which the nanosecond count of the clock holds in 64 bits
MinutesBetween(t, n) ==
    TowardZero((n.days - t.days) * 1440 + (n.secs - t.secs) \div 60,
               (n.secs - t.secs) % 60)

\* fmt_age_text with the test mins <= 60 for the minutes form
fmt_age_text_le60(mins) ==
    IF mins < 1 THEN <<"<", "1", "m">>
    ELSE IF mins <= 60 THEN to_string(mins) \o <<"m">>
    ELSE IF mins \div 60 < 24
    THEN to_string(mins \div 60) \o <<"h", " ">> \o to_string(mins % 60) \o <<"m">>
    ELSE to_string((mins \div 60) \div 24) \o <<"d", " ">>
             \o to_string((mins \div 60) % 24) \o <<"h">>

\* the string fmt_age returns for a timestamp that lies mins minutes back
fmt_age_text(mins) ==
    IF mins < 1 THEN <<"<", "1", "m">>
    ELSE IF mins < 60 THEN to_string(mins) \o <<"m">>
    ELSE IF mins \div 60 < 24
    THEN to_string(mins \div 60) \o <<"h", " ">> \o to_string(mins % 60) \o <<"m">>
    ELSE to_string((mins \div 60) \div 24) \o <<"d", " ">>
             \o to_string((mins \div 60) % 24) \o <<"h">>

\* fmt_age without the step if (mins < 0) mins = 0
fmt_age_unclamped(mins) == [text |-> fmt_age_text(mins), out_minutes |-> mins]

\* if (mins < 0) mins = 0; out_minutes = (int)mins; and the returns
fmt_age_clamped(mins) ==
    IF mins < 0 THEN [text |-> fmt_age_text(0), out_minutes |-> 0]
    ELSE [text |-> fmt_age_text(mins), out_minutes |-> mins]

\* [text, out_minutes], n the value of std::chrono::system_clock::now()
fmt_age(submitted_at, n) ==
    IF ~submitted_at.has
    THEN [text |-> <<"u", "n", "k", "n", "o", "w", "n">>, out_minutes |-> 0]
    ELSE fmt_age_clamped(MinutesBetween(submitted_at.t, n))

\* the text set_status_line gives m_status, raw the trimmed printer state
StatusSummary(raw) ==
    <<IF Contains(raw, <<"d", "i", "s", "a", "b", "l", "e", "d">>)
      THEN "Queue Status: DISABLED / PAUSED" ELSE "Queue Status: ENABLED">>
    \o (IF raw # <<>> THEN <<"   (", raw, ")">> ELSE <<>>)

set_status_line(sys) == StatusSummary(trim_copy(printer_state_raw(sys)))

\* the commands refresh() issues
refresh_commands(sys) == <<CmdPrinterState>> \o get_jobs_commands(sys)

color == "#3b2f1b"

\* m_spin_age.set_range(0, 1440); m_spin_age.set_value(10)
MaxHighlightAge     == 1440
DefaultHighlightAge == 10

\* m_spin_refresh.set_range(0, 3600) and set_value(5)
MaxRefreshPeriod == 3600
DefaultRefreshPeriod == 5

\* the row refresh appends for job j, a the outcome of fmt_age
NewRow(j, a, threshold) ==
    [job_id      |-> j.job_id,
     user        |-> j.user,
     age         |-> a.text,
     age_minutes |-> a.out_minutes,
     status      |-> j.status,
     file        |-> j.file,
     bg_set      |-> (threshold > 0 /\ a.out_minutes >= threshold),
     bg_color    |-> IF threshold > 0 /\ a.out_minutes >= threshold
                     THEN color ELSE ""]

\* the rows of m_store after the loop of refresh
refresh_rows(js, n, threshold) ==
    [k \in 1..Len(js) |-> NewRow(js[k], fmt_age(js[k].submitted_at, n), threshold)]

\* apply_highlight_only that keeps the flagged rows only
apply_highlight_only_stale_rows(store, threshold) ==
    LET Stale(row) == threshold > 0 /\ row.age_minutes >= threshold
    IN  SelectSeq([k \in 1..Len(store) |->
                      [store[k] EXCEPT !.bg_set = TRUE, !.bg_color = color]],
                  Stale)

\* apply_highlight_only that flags the rows older than the threshold only
apply_highlight_only_strict(store, threshold) ==
    [k \in 1..Len(store) |->
        [store[k] EXCEPT
            !.bg_set   = (threshold > 0 /\ store[k].age_minutes > threshold),
            !.bg_color = IF threshold > 0 /\ store[k].age_minutes > threshold
                         THEN color ELSE ""]]

\* the rows of m_store after apply_highlight_only
apply_highlight_only(store, threshold) ==
    [k \in 1..Len(store) |->
        [store[k] EXCEPT
            !.bg_set   = (threshold > 0 /\ store[k].age_minutes >= threshold),
            !.bg_color = IF threshold > 0 /\ store[k].age_minutes >= threshold
                         THEN color ELSE ""]]

(***************************************************************************)
(* Specification of one run of parse_lpstat_jobs, line by line             *)
(***************************************************************************)
TextAlphabet == {"a", " ", "\n"}

ParseIdle ==
    /\ text = <<>> /\ lines = <<>> /\ current = EmptyJob
    /\ active = FALSE /\ jobs = <<>> /\ ppc = "idle"

DateIdle ==
    /\ rest = <<>> /\ dt_tm = [ok |-> FALSE, i |-> 0, tm |-> ZeroTm]
    /\ dt_result = nullopt /\ dpc = "idle"

CupsIdle ==
    /\ cups_state = <<>> /\ cups_long = <<>> /\ cups_queue = <<>>
    /\ cups_old = FALSE /\ popen_ok = TRUE /\ cmd_log = <<>>

DiagIdle ==
    /\ m_show_raw = FALSE /\ m_strip_global = FALSE /\ m_strip_hplip = TRUE
    /\ m_buffer = <<>> /\ cups_ready = FALSE /\ cpc = "idle"

DialogIdle ==
    /\ now = TimeZero /\ m_spin_age = DefaultHighlightAge /\ m_store = <<>>
    /\ m_status = <<>> /\ qpc = "closed"

ClientIdle ==
    /\ cups_reject = UnknownOptionReply /\ arg_user = <<>> /\ ret_jobs = <<>>
    /\ arg_job_id = <<>>
    /\ ret_name = <<>> /\ kpc = "idle"

\* no handler waits in confirm_action
NoPending == [action |-> "", job_id |-> <<>>, user |-> <<>>]

QueueIdle ==
    /\ selected = 0 /\ m_spin_refresh = DefaultRefreshPeriod /\ timers = <<>>
    /\ m_timer_conn = 0 /\ pending = NoPending /\ resp = "none"
    /\ refreshing = "" /\ orphans = 0

\* an entry of a key file: a key that is there with its value text, or none
NoEntry == [present |-> FALSE, value |-> <<>>]
Entry(t) == [present |-> TRUE, value |-> t]

\* the keys load_config reads, in the order it reads them, each with the
\* member it is assigned to
LoadOrder ==
    <<[group |-> "output", key |-> "raw", member |-> "m_show_raw"],
      [group |-> "output", key |-> "strip_global",
       member |-> "m_strip_global"],
      [group |-> "output", key |-> "strip_hplip", member |-> "m_strip_hplip"],
      [group |-> "wake", key |-> "enabled", member |-> "m_wake_enabled"],
      [group |-> "wake", key |-> "interval_minutes",
       member |-> "m_wake_interval_minutes"]>>

ConfigKeys == {<<LoadOrder[i].group, LoadOrder[i].key>> : i \in DOMAIN LoadOrder}

\* no file config.ini, or one Glib::KeyFile::load_from_file cannot load
NoFile == [loads |-> FALSE, entries |-> [k \in ConfigKeys |-> NoEntry]]

\* the member initialisers of PrinterDiagnostic
DefaultSettings ==
    [m_show_raw |-> FALSE, m_strip_global |-> FALSE, m_strip_hplip |-> TRUE,
     m_wake_enabled |-> FALSE, m_wake_interval_minutes |-> 5]

WakeIdle ==
    /\ cfg_file = NoFile
    /\ m_wake_enabled = DefaultSettings.m_wake_enabled
    /\ m_wake_interval_minutes = DefaultSettings.m_wake_interval_minutes
    /\ m_spin_wake_interval = 1
    /\ wake_timers = <<>> /\ m_wake_timer_conn = 0
    /\ m_lbl_wake_status = <<"Status: Disabled">>
    /\ wpc = "idle"

Locals == [jobs |-> jobs, current |-> current, active |-> active]

SetLocals(st) ==
    /\ jobs' = st.jobs
    /\ current' = st.current
    /\ active' = st.active

InitParse ==
    /\ text \in SeqsUpTo(TextAlphabet, MaxTextLen)
    /\ lines = GetLines(text)
    /\ current = EmptyJob
    /\ active = FALSE
    /\ jobs = <<>>
    /\ ppc = "loop"
    /\ DateIdle /\ CupsIdle /\ DiagIdle /\ DialogIdle /\ ClientIdle /\ QueueIdle
    /\ WakeIdle

BlankLine ==
    /\ ppc = "loop" /\ lines # <<>>
    /\ IsBlankLine(Head(lines))
    /\ SetLocals(parse_line(Locals, Head(lines)))
    /\ lines' = Tail(lines)
    /\ UNCHANGED <<text, ppc>>
    /\ UNCHANGED <<date_vars, cups_vars, diag_vars, dialog_vars, client_vars, queue_vars,
                   wake_vars>>

HeaderLine ==
    /\ ppc = "loop" /\ lines # <<>>
    /\ ~IsBlankLine(Head(lines)) /\ ~IsContinuationLine(Head(lines))
    /\ SetLocals(parse_line(Locals, Head(lines)))
    /\ lines' = Tail(lines)
    /\ UNCHANGED <<text, ppc>>
    /\ UNCHANGED <<date_vars, cups_vars, diag_vars, dialog_vars, client_vars, queue_vars,
                   wake_vars>>

ContinuationLine ==
    /\ ppc = "loop" /\ lines # <<>>
    /\ ~IsBlankLine(Head(lines)) /\ IsContinuationLine(Head(lines))
    /\ SetLocals(parse_line(Locals, Head(lines)))
    /\ lines' = Tail(lines)
    /\ UNCHANGED <<text, ppc>>
    /\ UNCHANGED <<date_vars, cups_vars, diag_vars, dialog_vars, client_vars, queue_vars,
                   wake_vars>>

EndOfInput ==
    /\ ppc = "loop" /\ lines = <<>>
    /\ SetLocals(flush(Locals))
    /\ ppc' = "done"
    /\ UNCHANGED <<text, lines>>
    /\ UNCHANGED <<date_vars, cups_vars, diag_vars, dialog_vars, client_vars, queue_vars,
                   wake_vars>>

NextParse == BlankLine \/ HeaderLine \/ ContinuationLine \/ EndOfInput

vars == <<parse_vars, date_vars, cups_vars, diag_vars, dialog_vars,
         client_vars, queue_vars, wake_vars>>

SpecParse == InitParse /\ [][NextParse]_vars

(***************************************************************************)
(* Specification of one call of parse_datetime_from_line                   *)
(***************************************************************************)
Tok5      == <<"5">>
TokJan    == <<"J", "a", "n">>
TokDec    == <<"D", "e", "c">>
Tok2024   == <<"2", "0", "2", "4">>
Tok100000 == <<"1", "0", ":", "0", "0", ":", "0", "0">>
Tok1230   == <<"1", "2", ":", "3", "0">>
Tok1305   == <<"1", "3", ":", "0", "5">>
Tok105PM  == <<"1", ":", "0", "5", "P", "M">>
TokAM     == <<"A", "M">>
TokPM     == <<"P", "M">>
TokEST    == <<"E", "S", "T">>
TokTue    == <<"T", "u", "e">>
Tok1024   == <<"1", "0", "2", "4">>

TokenVocabulary ==
    {Tok5, TokJan, TokDec, Tok2024, Tok100000, Tok1230, Tok1305, Tok105PM}

TokenSuffixes == {<<>>, <<TokAM>>, <<TokPM>>, <<TokEST>>}

\* status texts as lpstat prints them, longer than the enumerated ones
StatusFixtures ==
    { Join(<<Tok1024, TokTue, Tok5, TokJan, Tok2024, Tok100000, TokPM, TokEST>>),
      Join(<<Tok5, TokJan, Tok2024, Tok100000, Tok5, TokDec, Tok2024, Tok1230>>),
      Join(<<TokJan, Tok2024, Tok1230, Tok5, TokDec, Tok2024, Tok1305, TokPM>>),
      Join(<<Tok5, TokJan, TokEST, Tok1230, Tok5, TokDec, Tok2024, Tok1230, TokAM>>) }

StatusTexts ==
    {Join(t \o x) : t \in SeqsUpTo(TokenVocabulary, MaxTokens), x \in TokenSuffixes}
        \cup StatusFixtures

InitDate ==
    /\ ParseIdle /\ CupsIdle /\ DiagIdle /\ DialogIdle /\ ClientIdle /\ QueueIdle
    /\ WakeIdle
    /\ rest \in StatusTexts
    /\ dt_tm = [ok |-> FALSE, i |-> 0, tm |-> ZeroTm]
    /\ dt_result = nullopt
    /\ dpc = "call"

\* what the scan left in tm when it returned
HandedToMktime(r) == [ok |-> r.ok, i |-> r.i, tm |-> r.tm]

CallParseDatetime ==
    /\ dpc = "call"
    /\ dt_tm' = HandedToMktime(parse_datetime_scan(rest))
    /\ dt_result' \in TimePointOutcomes(parse_datetime_from_line(rest))
    /\ dpc' = "done"
    /\ UNCHANGED rest
    /\ UNCHANGED <<parse_vars, cups_vars, diag_vars, dialog_vars, client_vars, queue_vars,
                   wake_vars>>

NextDate == CallParseDatetime

SpecDate == InitDate /\ [][NextDate]_vars

(***************************************************************************)
(* Specification of one call of check_cups_status                          *)
(***************************************************************************)
\* texts of lpstat -p
StateIdle ==
    <<"p", "r", "i", "n", "t", "e", "r", " ", "H", "P", " ", "i", "s", " ",
      "i", "d", "l", "e", ".", " ", " ", "e", "n", "a", "b", "l", "e", "d", " ",
      "s", "i", "n", "c", "e", " ", "J", "a", "n", " ", "5", "\n">>
StateDisabled ==
    <<"p", "r", "i", "n", "t", "e", "r", " ", "H", "P", " ", "d", "i", "s",
      "a", "b", "l", "e", "d", " ", "s", "i", "n", "c", "e", " ", "J", "a",
      "n", " ", "5", " ", "-", "\n", "\t", "P", "a", "u", "s", "e", "d", "\n">>
StatePrinting ==
    <<"p", "r", "i", "n", "t", "e", "r", " ", "H", "P", " ", "n", "o", "w", " ",
      "p", "r", "i", "n", "t", "i", "n", "g", " ", "H", "P", "-", "1", ".",
      " ", " ", "e", "n", "a", "b", "l", "e", "d", "\n">>
StateDisabledIdle ==
    <<"p", "r", "i", "n", "t", "e", "r", " ", "H", "P", " ", "d", "i", "s",
      "a", "b", "l", "e", "d", " ", "s", "i", "n", "c", "e", " ", "J", "a",
      "n", " ", "5", " ", "-", "\n", "\t", "i", "d", "l", "e", "\n">>

StateTexts == {StateIdle, StateDisabled, StatePrinting, StateDisabledIdle}

\* texts of lpstat -l -p
LongMediaEmptyError ==
    <<"\t", "A", "l", "e", "r", "t", "s", ":", " ", "m", "e", "d", "i", "a",
      "-", "e", "m", "p", "t", "y", "-", "e", "r", "r", "o", "r", "\n">>
LongOutOfPaper ==
    <<"\t", "O", "u", "t", " ", "o", "f", " ", "p", "a", "p", "e", "r", "\n">>
LongMediaEmptyUpper ==
    <<"\t", "M", "E", "D", "I", "A", " ", "E", "M", "P", "T", "Y", "\n">>
LongTwoPhrases ==
    <<"\t", "m", "e", "d", "i", "a", "-", "e", "m", "p", "t", "y", "\n", "\t",
      "O", "u", "t", " ", "O", "f", " ", "P", "a", "p", "e", "r", "\n">>
LongNoAlerts ==
    <<"\t", "A", "l", "e", "r", "t", "s", ":", " ", "n", "o", "n", "e", "\n">>
LongPaused ==
    <<"\t", "P", "a", "u", "s", "e", "d", ",", " ", "o", "u", "t", " ", "o",
      "f", " ", " ", "p", "a", "p", "e", "r", "\n">>
LongColoured ==
    <<"\t", "M", "e", "d", "i", "a", " ", ESC, "[", "1", "m", "E", "m", "p",
      "t", "y", ESC, "[", "0", "m", "\n">>

LongTexts ==
    {LongMediaEmptyError, LongOutOfPaper, LongMediaEmptyUpper, LongTwoPhrases,
     LongNoAlerts, LongPaused, LongColoured, <<>>}

\* lines of lpstat -o -l
JobLineA ==
    <<"H", "P", "-", "1", " ", "a", "l", " ", "1", "0", "2", "4", " ", "F",
      "r", "i", " ", "5", " ", "J", "a", "n", " ", "2", "0", "2", "4", " ",
      "1", "0", ":", "0", "0", ":", "0", "0", "\n">>
JobLineB ==
    <<"H", "P", "-", "2", " ", "b", "o", " ", "2", "0", "4", "8", " ", "F",
      "r", "i", " ", "5", " ", "J", "a", "n", " ", "2", "0", "2", "4", " ",
      "9", ":", "5", "9", "\n">>
JobLineC ==
    <<"H", "P", "-", "3", " ", "a", "l", " ", "5", "1", "2", "\n", "\t", "r",
      "e", "p", "o", "r", "t", ".", "p", "d", "f", "\n">>

QueueTexts ==
    {<<>>, <<"\n">>, JobLineA, JobLineC \o JobLineB}

InitCups ==
    /\ ParseIdle /\ DateIdle /\ DialogIdle /\ ClientIdle /\ QueueIdle
    /\ WakeIdle
    /\ cups_state \in StateTexts
    /\ cups_long \in LongTexts
    /\ cups_queue \in QueueTexts
    /\ cups_old \in BOOLEAN
    /\ popen_ok \in BOOLEAN
    /\ cmd_log = <<>>
    /\ m_show_raw \in BOOLEAN
    /\ m_strip_global \in BOOLEAN
    /\ m_strip_hplip \in BOOLEAN
    /\ m_buffer = <<>>
    /\ cups_ready = FALSE
    /\ cpc = "call"

CheckCupsStatus ==
    /\ cpc = "call"
    /\ m_buffer' = m_buffer \o check_cups_status(Sys).lines
    /\ cmd_log' = check_cups_status(Sys).cmds
    /\ cups_ready' = check_cups_status(Sys).ret
    /\ cpc' = "done"
    /\ UNCHANGED <<cups_state, cups_long, cups_queue, cups_old, popen_ok>>
    /\ UNCHANGED <<m_show_raw, m_strip_global, m_strip_hplip>>
    /\ UNCHANGED <<parse_vars, date_vars, dialog_vars, client_vars, queue_vars,
                   wake_vars>>

NextCups == CheckCupsStatus

SpecCups == InitCups /\ [][NextCups]_vars

(***************************************************************************)
(* Specification of one call of a CupsClient function                      *)
(***************************************************************************)
\* what other lpstat programs print for an option they do not know
InvalidOptionReply ==
    <<"l", "p", "s", "t", "a", "t", ":", " ", "i", "n", "v", "a", "l", "i",
      "d", " ", "o", "p", "t", "i", "o", "n", " ", "-", "-", " ", "'", "W",
      "'", "\n">>
LowerUnknownReply ==
    <<"l", "p", "s", "t", "a", "t", ":", " ", "u", "n", "k", "n", "o", "w",
      "n", " ", "o", "p", "t", "i", "o", "n", " ", "W", "\n">>
UpperInvalidReply ==
    <<"l", "p", "s", "t", "a", "t", ":", " ", "I", "n", "v", "a", "l", "i",
      "d", " ", "o", "p", "t", "i", "o", "n", " ", "W", "\n">>

RejectTexts ==
    {UnknownOptionReply, InvalidOptionReply, LowerUnknownReply,
     UpperInvalidReply}

\* job lines that show the words of a rejected option
JobLineU ==
    <<"H", "P", "-", "5", " ", "a", "l", " ", "9", " ", "U", "n", "k", "n",
      "o", "w", "n", " ", "o", "p", "t", "i", "o", "n", "\n">>
JobLineI ==
    <<"H", "P", "-", "4", " ", "b", "o", " ", "7", "7", "\n", "\t", "i", "n",
      "v", "a", "l", "i", "d", " ", "o", "p", "t", "i", "o", "n", ".", "t",
      "x", "t", "\n">>

\* a job line whose job id holds a single quote
JobLineQ ==
    <<"H", "P", "-", "7", "'", ";", "x", " ", "a", "l", " ", "1", "\n">>

ClientQueues ==
    {<<>>, JobLineA, JobLineA \o JobLineC, JobLineC \o JobLineB,
     JobLineA \o JobLineB \o JobLineC, JobLineU \o JobLineB, JobLineI,
     JobLineQ}

UserAl == <<"a", "l">>
UserBo == <<"b", "o">>
UserCy == <<"c", "y">>
Users == {UserAl, UserBo, UserCy}

\* texts of lpstat -l -p with and without a description
LongDescribed ==
    <<"p", "r", "i", "n", "t", "e", "r", " ", "H", "P", " ", "i", "s", " ",
      "i", "d", "l", "e", ".", "\n", "\t", "D", "e", "s", "c", "r", "i", "p",
      "t", "i", "o", "n", ":", " ", "H", "P", " ", "L", "a", "s", "e", "r",
      "J", "e", "t", " ", "\n", "\t", "A", "l", "e", "r", "t", "s", ":", " ",
      "n", "o", "n", "e", "\n">>
LongBlankDescription ==
    <<"p", "r", "i", "n", "t", "e", "r", " ", "H", "P", " ", "i", "s", " ",
      "i", "d", "l", "e", ".", "\n", "\t", "D", "e", "s", "c", "r", "i", "p",
      "t", "i", "o", "n", ":", " ", "\n", "\t", "A", "l", "e", "r", "t", "s",
      ":", " ", "n", "o", "n", "e", "\n">>
LongNoRemainder ==
    <<"\t", "D", "e", "s", "c", "r", "i", "p", "t", "i", "o", "n", ":", "\n",
      "\t", "L", "o", "c", "a", "t", "i", "o", "n", ":", " ", "L", "a", "b",
      "\n">>
LongSecondDescription ==
    <<"\t", "D", "e", "s", "c", "r", "i", "p", "t", "i", "o", "n", ":", "\n",
      "\t", "D", "e", "s", "c", "r", "i", "p", "t", "i", "o", "n", ":", "\t",
      "L", "a", "b", " ", "2", "\t", "\r", "\n">>
LongLocationOnly ==
    <<"p", "r", "i", "n", "t", "e", "r", " ", "H", "P", " ", "i", "s", " ",
      "i", "d", "l", "e", ".", "\n", "\t", "L", "o", "c", "a", "t", "i", "o",
      "n", ":", " ", "L", "a", "b", "\n">>

NameTexts ==
    {<<>>, LongDescribed, LongBlankDescription, LongNoRemainder,
     LongSecondDescription, LongLocationOnly}

\* the job ids of the records parsed from the listing q
ListedIds(q) ==
    {parse_lpstat_jobs(q)[k].job_id : k \in 1..Len(parse_lpstat_jobs(q))}

\* a read function of the CupsClient or of the dialog that takes every
\* command for a listing command to issue
CommandsOf_resuming(fn, job_id, user, sys) == <<CmdResumeQueue>>

\* the commands the function fn hands to m_exec, in order; set_status_line
\* and refresh are the dialog's, the others the CupsClient's
CommandsOf(fn, job_id, user, sys) ==
    CASE fn = "printer_state_raw" -> <<CmdPrinterState>>
      [] fn = "printer_long_raw" -> <<CmdPrinterLong>>
      [] fn = "get_printer_friendly_name" -> <<CmdPrinterLong>>
      [] fn = "has_recoverable_reason_hint" -> <<CmdPrinterLong>>
      [] fn = "queue_disabled" -> <<CmdPrinterState>>
      [] fn = "get_jobs" -> get_jobs_commands(sys)
      [] fn = "set_status_line" -> <<CmdPrinterState>>
      [] fn = "refresh" -> refresh_commands(sys)
      [] fn = "cancel_job" -> cancel_job(job_id)
      [] fn = "cancel_all" -> <<CmdCancelAll>>
      [] fn = "cancel_all_from_user" -> cancel_all_from_user(user, sys)
      [] fn = "pause_queue" -> <<CmdPauseQueue>>
      [] fn = "resume_queue" -> <<CmdResumeQueue>>

InitClient ==
    /\ ParseIdle /\ DateIdle /\ DiagIdle /\ DialogIdle /\ QueueIdle
    /\ WakeIdle
    /\ cups_state = <<>>
    /\ cups_long \in NameTexts
    /\ cups_queue \in ClientQueues
    /\ cups_old \in BOOLEAN
    /\ cups_reject \in RejectTexts
    /\ popen_ok \in BOOLEAN
    /\ cmd_log = <<>>
    /\ arg_user \in Users
    /\ arg_job_id \in ListedIds(cups_queue) \cup {<<>>}
    /\ ret_jobs = <<>>
    /\ ret_name = <<>>
    /\ kpc = "call"

GetJobs ==
    /\ kpc = "call"
    /\ ret_jobs' = get_jobs(Sys)
    /\ cmd_log' = CommandsOf("get_jobs", arg_job_id, arg_user, Sys)
    /\ kpc' = "get_jobs"
    /\ UNCHANGED <<cups_state, cups_long, cups_queue, cups_old, popen_ok>>
    /\ UNCHANGED <<cups_reject, arg_user, arg_job_id, ret_name>>
    /\ UNCHANGED <<parse_vars, date_vars, diag_vars, dialog_vars, queue_vars,
                   wake_vars>>

CancelAllFromUser ==
    /\ kpc = "call"
    /\ cmd_log' = CommandsOf("cancel_all_from_user", arg_job_id, arg_user, Sys)
    /\ kpc' = "cancel_all_from_user"
    /\ UNCHANGED <<cups_state, cups_long, cups_queue, cups_old, popen_ok>>
    /\ UNCHANGED <<cups_reject, arg_user, arg_job_id, ret_jobs, ret_name>>
    /\ UNCHANGED <<parse_vars, date_vars, diag_vars, dialog_vars, queue_vars,
                   wake_vars>>

GetPrinterFriendlyName ==
    /\ kpc = "call"
    /\ ret_name' = get_printer_friendly_name(Sys)
    /\ cmd_log' = CommandsOf("get_printer_friendly_name", arg_job_id, arg_user, Sys)
    /\ kpc' = "get_printer_friendly_name"
    /\ UNCHANGED <<cups_state, cups_long, cups_queue, cups_old, popen_ok>>
    /\ UNCHANGED <<cups_reject, arg_user, arg_job_id, ret_jobs>>
    /\ UNCHANGED <<parse_vars, date_vars, diag_vars, dialog_vars, queue_vars,
                   wake_vars>>

\* a call of fn that returns nothing the properties read
Call(fn) ==
    /\ kpc = "call"
    /\ cmd_log' = CommandsOf(fn, arg_job_id, arg_user, Sys)
    /\ kpc' = fn
    /\ UNCHANGED <<cups_state, cups_long, cups_queue, cups_old, popen_ok>>
    /\ UNCHANGED <<cups_reject, arg_user, arg_job_id, ret_jobs, ret_name>>
    /\ UNCHANGED <<parse_vars, date_vars, diag_vars, dialog_vars, queue_vars,
                   wake_vars>>

PrinterStateRaw == Call("printer_state_raw")

PrinterLongRaw == Call("printer_long_raw")

HasRecoverableReasonHint == Call("has_recoverable_reason_hint")

QueueDisabled == Call("queue_disabled")

SetStatusLine == Call("set_status_line")

RefreshCall == Call("refresh")

CancelJob == arg_job_id # <<>> /\ Call("cancel_job")

CancelAll == Call("cancel_all")

PauseQueue == Call("pause_queue")

ResumeQueue == Call("resume_queue")

NextClient ==
    \/ GetJobs \/ CancelAllFromUser \/ GetPrinterFriendlyName
    \/ PrinterStateRaw \/ PrinterLongRaw \/ HasRecoverableReasonHint
    \/ QueueDisabled \/ SetStatusLine \/ RefreshCall
    \/ CancelJob \/ CancelAll \/ PauseQueue \/ ResumeQueue

SpecClient == InitClient /\ [][NextClient]_vars

(***************************************************************************)
(* Specification of the queue dialog: refresh and the highlight threshold  *)
(***************************************************************************)
RECURSIVE Concat(_)
Concat(ls) == IF ls = <<>> THEN <<>> ELSE Head(ls) \o Concat(Tail(ls))

JobLines == {JobLineA, JobLineB, JobLineC}

Listings == {Concat(ls) : ls \in SeqsUpTo(JobLines, MaxRows)}

\* the instant off seconds after 5 Jan 2024 10:00:00
At(off) ==
    [days |-> 19727 + (36000 + off) \div 86400, secs |-> (36000 + off) % 86400]

ClockOffsets == {-60, 0, 540, 600, 3599, 3600, 86399, 86400}

Instants == {At(off) : off \in ClockOffsets}

Thresholds == {0, 9, DefaultHighlightAge, 11, MaxHighlightAge}

DialogStates == {StateIdle, StateDisabled}

\* refresh() at the clock value n
DoRefresh(sys, n) ==
    /\ m_status' = set_status_line(sys)
    /\ m_store' = refresh_rows(get_jobs(sys), n, m_spin_age)
    /\ cmd_log' = refresh_commands(sys)

\* the dialog as its constructor leaves it, opened at the instant At(0): the
\* spin button at its default and the first refresh done
InitDialog ==
    /\ ParseIdle /\ DateIdle /\ DiagIdle /\ ClientIdle /\ QueueIdle
    /\ WakeIdle
    /\ cups_state \in DialogStates
    /\ cups_long = <<>>
    /\ cups_queue \in Listings
    /\ cups_old \in BOOLEAN
    /\ popen_ok = TRUE
    /\ now = At(0)
    /\ m_spin_age = DefaultHighlightAge
    /\ m_status = set_status_line(Sys)
    /\ m_store = refresh_rows(get_jobs(Sys), now, m_spin_age)
    /\ cmd_log = refresh_commands(Sys)
    /\ qpc = "open"

\* the listings one job more or one job less than q
QueueSteps(q) ==
    {q2 \in Listings : \E l \in JobLines : q2 = q \o l \/ q = l \o q2}

\* what may have happened since the last callback: nothing, or a job was
\* queued or has left the queue, or the clock shows another instant, or the
\* printer state has changed, or popen fails or succeeds again
Happenings ==
    {[state |-> cups_state, queue |-> q, popen_ok |-> popen_ok, now |-> now] :
        q \in QueueSteps(cups_queue)}
    \cup {[state |-> cups_state, queue |-> cups_queue, popen_ok |-> popen_ok,
           now |-> n] : n \in Instants}
    \cup {[state |-> s, queue |-> cups_queue, popen_ok |-> popen_ok,
           now |-> now] : s \in DialogStates}
    \cup {[state |-> cups_state, queue |-> cups_queue, popen_ok |-> ok,
           now |-> now] : ok \in BOOLEAN}

\* refresh(), from the button, the timer or an action
Refresh ==
    /\ qpc = "open"
    /\ \E e \in Happenings :
           /\ cups_state' = e.state
           /\ cups_queue' = e.queue
           /\ popen_ok' = e.popen_ok
           /\ now' = e.now
           /\ DoRefresh([Sys EXCEPT !.state = e.state, !.queue = e.queue,
                                    !.popen_ok = e.popen_ok], e.now)
    /\ UNCHANGED <<cups_long, cups_old, m_spin_age, qpc>>
    /\ UNCHANGED <<parse_vars, date_vars, diag_vars, client_vars, queue_vars,
                   wake_vars>>

\* signal_value_changed of m_spin_age: apply_highlight_only()
SpinAgeChanged ==
    /\ qpc = "open"
    /\ \E v \in Thresholds \ {m_spin_age} :
           /\ m_spin_age' = v
           /\ m_store' = apply_highlight_only(m_store, v)
    /\ cmd_log' = <<>>
    /\ UNCHANGED <<cups_state, cups_long, cups_queue, cups_old, popen_ok>>
    /\ UNCHANGED <<now, m_status, qpc>>
    /\ UNCHANGED <<parse_vars, date_vars, diag_vars, client_vars, queue_vars,
                   wake_vars>>

NextDialog == Refresh \/ SpinAgeChanged

SpecDialog == InitDialog /\ [][NextDialog]_vars

(***************************************************************************)
(* Specification of the queue dialog: its buttons, the confirmation prompt *)
(* and the auto-refresh timer.  The dialog runs on the one thread of the   *)
(* GTK main loop: a callback is dispatched when control is in the loop,    *)
(* which is between callbacks and inside Gtk::Dialog::run() of the         *)
(* confirmation prompt.  The prompt is modal, so while it is shown the     *)
(* loop dispatches the timer but no button and no spin button of the       *)
(* dialog.                                                                 *)
(***************************************************************************)
RemoveAt(s, k) == SubSeq(s, 1, k - 1) \o SubSeq(s, k + 1, Len(s))

\* if (m_timer_conn.connected()) m_timer_conn.disconnect(): the sources left
disconnect(tms, conn) == IF conn # 0 THEN RemoveAt(tms, conn) ELSE tms

\* Glib::signal_timeout().connect_seconds(slot, seconds)
connect_seconds(tms, seconds) ==
    [timers |-> Append(tms, seconds), m_timer_conn |-> Len(tms) + 1]

\* restart_timer that schedules without disconnecting
restart_timer_no_disconnect(tms, conn, seconds) ==
    IF seconds <= 0 THEN [timers |-> tms, m_timer_conn |-> conn]
    ELSE connect_seconds(tms, seconds)

\* [timers, m_timer_conn] after restart_timer() with the spin value seconds
restart_timer(tms, conn, seconds) ==
    IF seconds <= 0
    THEN [timers |-> disconnect(tms, conn), m_timer_conn |-> 0]
    ELSE connect_seconds(disconnect(tms, conn), seconds)

\* a main loop that dispatches callbacks while refresh() runs
Dispatching_during_refresh == TRUE

\* control is in the main loop: refresh() runs to its end without entering it
Dispatching == refreshing = ""

\* a handler that reads the selected row again after the prompt
ActionCommands_selected_after_prompt(p, sys) ==
    IF selected = 0 THEN <<>>
    ELSE IF p.action = "cancel_selected"
    THEN cancel_job(m_store[selected].job_id)
    ELSE cancel_all_from_user(m_store[selected].user, sys)

\* the Queue Client call of the confirmed handler p: the commands it issues
ActionCommands(p, sys) ==
    CASE p.action = "cancel_selected" -> cancel_job(p.job_id)
      [] p.action = "cancel_all_from_user" -> cancel_all_from_user(p.user, sys)
      [] p.action = "cancel_all_jobs" -> <<CmdCancelAll>>
      [] p.action = "pause_queue" -> <<CmdPauseQueue>>
      [] p.action = "resume_queue" -> <<CmdResumeQueue>>

\* what the confirmed handler p logs before and after its Queue Client call
ActionLog(p) ==
    CASE p.action = "cancel_selected" ->
             <<print_info(<<"Queue Manager: Cancelling job ", p.job_id, " ...">>),
               print_success(<<"Queue Manager: Cancel requested for ", p.job_id>>)>>
      [] p.action = "cancel_all_from_user" ->
             <<print_info(<<"Queue Manager: Cancelling all jobs for user ",
                            p.user, " ...">>),
               print_success(<<"Queue Manager: Cancel requested for all jobs by ",
                               p.user>>)>>
      [] p.action = "cancel_all_jobs" ->
             <<print_info(<<"Queue Manager: Cancelling ALL jobs in queue ...">>),
               print_success(<<"Queue Manager: Cancel requested for ALL jobs.">>)>>
      [] p.action = "pause_queue" ->
             <<print_info(<<"Queue Manager: Pausing queue (cupsdisable) ...">>),
               print_success(<<"Queue Manager: Pause requested.">>)>>
      [] p.action = "resume_queue" ->
             <<print_info(<<"Queue Manager: Resuming queue (cupsenable) ...">>),
               print_success(<<"Queue Manager: Resume requested.">>)>>

\* a job line without owner
JobLineN ==
    <<"H", "P", "-", "6", "\n">>

DialogQueues ==
    {<<>>, JobLineA, JobLineA \o JobLineB \o JobLineC, JobLineN \o JobLineB}

Periods == {0, DefaultRefreshPeriod, 60}

\* what no callback of the dialog changes
queue_frame ==
    <<wake_vars, parse_vars, date_vars, client_vars, m_show_raw,
      m_strip_global, m_strip_hplip, cups_ready, cpc, cups_state, cups_long, cups_old,
      popen_ok, now, m_spin_age, orphans>>

\* a handler that starts its refresh before its Queue Client call
StartRefresh_before_call(trigger, issued, sys) ==
    /\ m_status' = set_status_line(sys)
    /\ m_store' = <<>>
    /\ selected' = 0
    /\ cmd_log' = <<CmdPrinterState>> \o issued
    /\ refreshing' = trigger

\* refresh() up to m_store->clear(), called by trigger after the commands
\* issued
StartRefresh(trigger, issued, sys) ==
    /\ m_status' = set_status_line(sys)
    /\ m_store' = <<>>
    /\ selected' = 0
    /\ cmd_log' = issued \o <<CmdPrinterState>>
    /\ refreshing' = trigger

\* the dialog as its constructor leaves it: the first refresh done and the
\* timer scheduled with the default period
InitQueue ==
    /\ ParseIdle /\ DateIdle /\ DiagIdle /\ ClientIdle
    /\ WakeIdle
    /\ cups_state \in DialogStates
    /\ cups_long = <<>>
    /\ cups_queue \in DialogQueues
    /\ cups_old \in BOOLEAN
    /\ popen_ok = TRUE
    /\ now = At(600)
    /\ m_spin_age = DefaultHighlightAge
    /\ m_status = set_status_line(Sys)
    /\ m_store = refresh_rows(get_jobs(Sys), now, m_spin_age)
    /\ cmd_log = refresh_commands(Sys)
    /\ qpc = "open"
    /\ selected = 0
    /\ m_spin_refresh = DefaultRefreshPeriod
    /\ timers = restart_timer(<<>>, 0, DefaultRefreshPeriod).timers
    /\ m_timer_conn = restart_timer(<<>>, 0, DefaultRefreshPeriod).m_timer_conn
    /\ pending = NoPending
    /\ resp = "none"
    /\ refreshing = ""
    /\ orphans = 0

\* m_btn_refresh clicked: refresh()
RefreshNow ==
    /\ qpc = "open" /\ Dispatching
    /\ StartRefresh("manual", <<>>, Sys)
    /\ m_buffer' = <<>>
    /\ UNCHANGED <<cups_queue, qpc, m_spin_refresh, timers, m_timer_conn,
                   pending, resp>>
    /\ UNCHANGED queue_frame

\* a timeout source expires: the slot calls refresh() and returns true
TimerFires ==
    /\ qpc \in {"open", "confirm"} /\ Dispatching
    /\ timers # <<>>
    /\ StartRefresh("timer", <<>>, Sys)
    /\ m_buffer' = <<>>
    /\ UNCHANGED <<cups_queue, qpc, m_spin_refresh, timers, m_timer_conn,
                   pending, resp>>
    /\ UNCHANGED queue_frame

\* refresh() from get_jobs() to its end
FinishRefresh ==
    /\ refreshing # ""
    /\ m_store' = m_store \o refresh_rows(get_jobs(Sys), now, m_spin_age)
    /\ cmd_log' = cmd_log \o get_jobs_commands(Sys)
    /\ refreshing' = ""
    /\ UNCHANGED <<cups_queue, m_buffer, m_status, qpc, selected,
                   m_spin_refresh, timers, m_timer_conn, pending, resp>>
    /\ UNCHANGED queue_frame

\* the user selects a row of the tree view
SelectRow ==
    /\ qpc = "open" /\ Dispatching
    /\ \E k \in (1..Len(m_store)) \ {selected} : selected' = k
    /\ UNCHANGED <<cups_queue, cmd_log, m_buffer, m_store, m_status, qpc,
                   m_spin_refresh, timers, m_timer_conn, pending, resp,
                   refreshing>>
    /\ UNCHANGED queue_frame

\* a handler enters confirm_action with the locals it has copied
AskConfirmation(action, job_id, user) ==
    /\ m_buffer' = <<>>
    /\ pending' = [action |-> action, job_id |-> job_id, user |-> user]
    /\ qpc' = "confirm"

\* a handler returns after a warning, before any prompt
WarnAndReturn(message) ==
    /\ m_buffer' = <<print_warning(<<message>>)>>
    /\ UNCHANGED <<pending, qpc>>

\* cancel_selected() up to the prompt
PressCancelSelected ==
    /\ qpc = "open" /\ Dispatching
    /\ cmd_log' = <<>>
    /\ IF selected = 0
       THEN WarnAndReturn("Queue Manager: No job selected.")
       ELSE AskConfirmation("cancel_selected", m_store[selected].job_id,
                            m_store[selected].user)
    /\ UNCHANGED <<cups_queue, m_store, m_status, selected, m_spin_refresh,
                   timers, m_timer_conn, resp, refreshing>>
    /\ UNCHANGED queue_frame

\* cancel_all_from_user() up to the prompt
PressCancelUser ==
    /\ qpc = "open" /\ Dispatching
    /\ cmd_log' = <<>>
    /\ IF selected = 0
       THEN WarnAndReturn("Queue Manager: Select a job first to choose a user.")
       ELSE IF m_store[selected].user = <<>>
       THEN WarnAndReturn("Queue Manager: Selected job has no user.")
       ELSE AskConfirmation("cancel_all_from_user", <<>>,
                            m_store[selected].user)
    /\ UNCHANGED <<cups_queue, m_store, m_status, selected, m_spin_refresh,
                   timers, m_timer_conn, resp, refreshing>>
    /\ UNCHANGED queue_frame

\* cancel_all_jobs() up to the prompt
PressCancelAll ==
    /\ qpc = "open" /\ Dispatching
    /\ cmd_log' = <<>>
    /\ AskConfirmation("cancel_all_jobs", <<>>, <<>>)
    /\ UNCHANGED <<cups_queue, m_store, m_status, selected, m_spin_refresh,
                   timers, m_timer_conn, resp, refreshing>>
    /\ UNCHANGED queue_frame

\* pause_queue() up to the prompt
PressPause ==
    /\ qpc = "open" /\ Dispatching
    /\ cmd_log' = <<>>
    /\ AskConfirmation("pause_queue", <<>>, <<>>)
    /\ UNCHANGED <<cups_queue, m_store, m_status, selected, m_spin_refresh,
                   timers, m_timer_conn, resp, refreshing>>
    /\ UNCHANGED queue_frame

\* resume_queue() up to the prompt
PressResume ==
    /\ qpc = "open" /\ Dispatching
    /\ cmd_log' = <<>>
    /\ AskConfirmation("resume_queue", <<>>, <<>>)
    /\ UNCHANGED <<cups_queue, m_store, m_status, selected, m_spin_refresh,
                   timers, m_timer_conn, resp, refreshing>>
    /\ UNCHANGED queue_frame

\* a handler that takes every response of the prompt for a confirmation
confirm_action_any_response(r) == TRUE

\* confirm_action(): resp == Gtk::RESPONSE_OK, r the value of dlg.run()
confirm_action(r) == r = "RESPONSE_OK"

\* the responses of the prompt other than OK: its Cancel button, its close
\* button or the Escape key
Declines == {"RESPONSE_CANCEL", "RESPONSE_DELETE_EVENT"}

\* dlg.run() of the prompt returns r and the handler goes on from
\* if (!confirm_action(...)) return; to its end: it logs, calls the Queue
\* Client, logs and calls refresh()
ConfirmReturns(r) ==
    /\ qpc = "confirm" /\ Dispatching
    /\ resp' = r
    /\ pending' = NoPending
    /\ qpc' = "open"
    /\ IF confirm_action(r)
       THEN /\ m_buffer' = ActionLog(pending)
            /\ StartRefresh("action", ActionCommands(pending, Sys), Sys)
       ELSE /\ m_buffer' = <<>>
            /\ cmd_log' = <<>>
            /\ UNCHANGED <<m_store, m_status, selected, refreshing>>
    /\ UNCHANGED <<cups_queue, m_spin_refresh, timers, m_timer_conn>>
    /\ UNCHANGED queue_frame

\* the user confirms
ConfirmOk == ConfirmReturns("RESPONSE_OK")

\* the user declines
ConfirmCancel == \E r \in Declines : ConfirmReturns(r)

\* signal_value_changed of m_spin_refresh: restart_timer()
SpinRefreshChanged ==
    /\ qpc = "open" /\ Dispatching
    /\ \E v \in Periods \ {m_spin_refresh} :
           /\ m_spin_refresh' = v
           /\ timers' = restart_timer(timers, m_timer_conn, v).timers
           /\ m_timer_conn' = restart_timer(timers, m_timer_conn, v).m_timer_conn
    /\ cmd_log' = <<>>
    /\ m_buffer' = <<>>
    /\ UNCHANGED <<cups_queue, m_store, m_status, qpc, selected, pending, resp,
                   refreshing>>
    /\ UNCHANGED queue_frame

\* CUPS: jobs arrive, finish or are cancelled
QueueChanges ==
    /\ cups_queue' \in DialogQueues \ {cups_queue}
    /\ UNCHANGED <<cmd_log, m_buffer, m_store, m_status, qpc, selected,
                   m_spin_refresh, timers, m_timer_conn, pending, resp,
                   refreshing>>
    /\ UNCHANGED queue_frame

\* the dialogs opened one after the other that leave a timeout source
MaxOrphans == 2

\* what closing and opening the dialog leaves alone
lifetime_frame ==
    <<wake_vars, parse_vars, date_vars, client_vars, m_show_raw,
      m_strip_global, m_strip_hplip, cups_ready, cpc, cups_state, cups_long, cups_queue,
      cups_old, popen_ok, now, m_spin_age>>

\* the Close button or the window's close button: dlg.run() of
\* open_queue_manager returns and dlg is destroyed at the end of the
\* function.  QueueDialog has no destructor, ~sigc::connection does not
\* disconnect, and the slot is a lambda that captures this, which sigc++
\* does not track: the timeout source stays in the main loop.
CloseDialog ==
    /\ qpc = "open" /\ Dispatching
    /\ orphans' = orphans + Len(timers)
    /\ m_store' = <<>> /\ m_status' = <<>> /\ selected' = 0
    /\ m_spin_refresh' = DefaultRefreshPeriod
    /\ timers' = <<>> /\ m_timer_conn' = 0
    /\ pending' = NoPending /\ resp' = "none"
    /\ cmd_log' = <<>> /\ m_buffer' = <<>>
    /\ qpc' = "closed"
    /\ UNCHANGED refreshing
    /\ UNCHANGED lifetime_frame

\* open_queue_manager(): the log line, then the constructor with its
\* refresh() and restart_timer(), then dlg.run()
OpenQueueManager ==
    /\ qpc = "closed"
    /\ orphans < MaxOrphans
    /\ m_buffer' = <<print_info(<<"Opening print queue manager...">>)>>
    /\ m_status' = set_status_line(Sys)
    /\ m_store' = refresh_rows(get_jobs(Sys), now, m_spin_age)
    /\ cmd_log' = refresh_commands(Sys)
    /\ m_spin_refresh' = DefaultRefreshPeriod
    /\ timers' = restart_timer(<<>>, 0, DefaultRefreshPeriod).timers
    /\ m_timer_conn' = restart_timer(<<>>, 0, DefaultRefreshPeriod).m_timer_conn
    /\ qpc' = "open"
    /\ UNCHANGED <<selected, pending, resp, refreshing, orphans>>
    /\ UNCHANGED lifetime_frame

\* what the slot of a destroyed dialog can do when its source expires: it
\* calls refresh() through the dangling this, which is undefined.  The call
\* faults; or it runs on the dead object's memory and issues the commands
\* of a refresh; or it runs on the dialog that has been constructed at the
\* same place since.
OrphanOutcomes == {"fault", "commands", "refresh"}

OrphanTimerFires ==
    /\ orphans > 0
    /\ qpc \in {"closed", "open", "confirm"} /\ Dispatching
    /\ \E outcome \in OrphanOutcomes :
           CASE outcome = "fault" ->
                    /\ qpc' = "crashed"
                    /\ cmd_log' = <<>>
                    /\ UNCHANGED <<m_store, m_status, selected, refreshing>>
             [] outcome = "commands" ->
                    /\ cmd_log' = refresh_commands(Sys)
                    /\ UNCHANGED <<m_store, m_status, selected, refreshing,
                                   qpc>>
             [] outcome = "refresh" ->
                    /\ qpc # "closed"
                    /\ StartRefresh("orphan", <<>>, Sys)
                    /\ UNCHANGED qpc
    /\ m_buffer' = <<>>
    /\ UNCHANGED <<cups_queue, m_spin_refresh, timers, m_timer_conn, pending,
                   resp>>
    /\ UNCHANGED queue_frame

NextQueue ==
    \/ CloseDialog \/ OpenQueueManager \/ OrphanTimerFires
    \/ RefreshNow \/ TimerFires \/ FinishRefresh \/ SelectRow
    \/ PressCancelSelected \/ PressCancelUser \/ PressCancelAll
    \/ PressPause \/ PressResume \/ ConfirmOk \/ ConfirmCancel
    \/ SpinRefreshChanged \/ QueueChanges

SpecQueue == InitQueue /\ [][NextQueue]_vars

(***************************************************************************)
(* Properties of parse_lpstat_jobs (SpecParse)                             *)
(***************************************************************************)
AllLines == GetLines(text)

IsHeaderLine(l) == ~IsBlankLine(l) /\ ~IsContinuationLine(l)

HeaderLinesOf(s) == SelectSeq(GetLines(s), IsHeaderLine)

\* the lines the loop has consumed so far
Consumed == Len(AllLines) - Len(lines)

\* in a line "ID OWNER tail", the position of the last character of OWNER
OwnerEnd(l) ==
    CHOOSE n \in 1..Len(l) :
        /\ Len(Tokenize(SubSeq(l, 1, n))) = 2
        /\ ~IsSpace(l[n])
        /\ (n = Len(l) \/ IsSpace(l[n + 1]))

\* C1: every header line with at least two tokens yields a record whose
\* job_id is the first token, whose owner is the second token and whose
\* status_text is the trimmed remainder of the line (empty when nothing
\* follows the owner).
C1_HeaderFields ==
    ppc = "done" =>
        LET hs == HeaderLinesOf(text)
        IN  \A k \in 1..Len(hs) :
                Len(Tokenize(hs[k])) >= 2 =>
                    /\ k <= Len(jobs)
                    /\ jobs[k].job_id = Tokenize(hs[k])[1]
                    /\ jobs[k].user = Tokenize(hs[k])[2]
                    /\ jobs[k].status = trim_copy(DropN(hs[k], OwnerEnd(hs[k])))

C1_Witness ==
    /\ ppc = "done"
    /\ Len(jobs) >= 1
    /\ Len(Tokenize(HeaderLinesOf(text)[1])) >= 3
    /\ jobs[1].user # <<>>
    /\ jobs[1].status # <<>>

\* C2: a whitespace-only line closes the open record (it is emitted), leaves
\* no record open and resets current; a continuation line that comes right
\* after a blank line changes nothing; an emitted record is never changed.
C2_BlankLineCloses ==
    [][ /\ BlankLine =>
            /\ jobs' = (IF active THEN Append(jobs, current) ELSE jobs)
            /\ active' = FALSE
            /\ current' = EmptyJob
        /\ (ContinuationLine /\ Consumed >= 1 /\ IsBlankLine(AllLines[Consumed]))
            => UNCHANGED <<jobs, current, active>>
        /\ Len(jobs') >= Len(jobs)
        /\ SubSeq(jobs', 1, Len(jobs)) = jobs ]_vars

\* header line, blank line, continuation line, header line: two records,
\* the continuation line attached to neither
C2_Witness ==
    /\ ppc = "done"
    /\ text = <<"a", "\n", "\n", " ", "a", "\n", "a">>
    /\ Len(jobs) = 2
    /\ jobs[1].file = <<>>
    /\ jobs[2].file = <<>>

\* C3: a continuation line changes nothing but the file_label of the open
\* record, to which its trimmed text is appended after " | " when a
\* fragment is already there; with no record open it changes nothing.
C3_ContinuationFrame ==
    [][ ContinuationLine =>
            LET cont == trim_copy(Head(lines))
            IN  /\ jobs' = jobs
                /\ active' = active
                /\ current'.job_id = current.job_id
                /\ current'.user = current.user
                /\ current'.status = current.status
                /\ current'.submitted_at = current.submitted_at
                /\ current'.file =
                       (IF ~active THEN current.file
                        ELSE IF current.file = <<>> THEN cont
                        ELSE current.file \o <<" ", "|", " ">> \o cont)
                /\ (~active => current' = EmptyJob) ]_vars

C3_Witness ==
    /\ ppc = "loop"
    /\ active
    /\ current.job_id # <<>>
    /\ Contains(current.file, <<" ", "|", " ">>)

\* C4: every emitted record has a non-empty job_id that is the first token
\* of a header line of the text; there are no more records than header
\* lines, so blank lines and continuation lines without an open record
\* yield no record; the run ends in "done" without an error state.
C4_OnlyHeaderRecords ==
    /\ ppc \in {"loop", "done"}
    /\ LET hs == HeaderLinesOf(text)
       IN  /\ Len(jobs) <= Len(hs)
           /\ \A k \in 1..Len(jobs) :
                  /\ jobs[k].job_id # <<>>
                  /\ \E h \in 1..Len(hs) : Tokenize(hs[h])[1] = jobs[k].job_id

\* a continuation line before the first header line, then one record
C4_Witness ==
    /\ ppc = "done"
    /\ Len(AllLines) >= 3
    /\ IsContinuationLine(AllLines[1])
    /\ \E n \in 2..Len(AllLines) : IsBlankLine(AllLines[n])
    /\ Len(jobs) = 1

\* C24: when the run is done there is exactly one record per header line
\* (a line that is not blank and whose first character is not whitespace),
\* and the k-th record has the first token of the k-th header line as its
\* job_id: the records are in listing order.
C24_OneRecordPerHeaderInOrder ==
    ppc = "done" =>
        /\ Len(jobs) = Len(HeaderLinesOf(text))
        /\ Len(jobs) = Cardinality({n \in 1..Len(AllLines) :
                                       /\ ~IsBlankLine(AllLines[n])
                                       /\ ~IsSpace(AllLines[n][1])})
        /\ \A k \in 1..Len(jobs) :
               jobs[k].job_id = Tokenize(HeaderLinesOf(text)[k])[1]

\* two header lines in a row, a continuation line, a blank line, a header
\* line: three records
C24_Witness ==
    /\ ppc = "done"
    /\ text = <<"a", "\n", "a", "\n", " ", "a", "\n", "\n", "a">>
    /\ Len(jobs) = 3
    /\ jobs[2].file = <<"a">>

(***************************************************************************)
(* Properties of parse_datetime_from_line (SpecDate)                       *)
(***************************************************************************)
\* what the tokens of the vocabulary denote
DayOfToken  == Tok5 :> 5

MonOfToken  == TokJan :> 0 @@ TokDec :> 11

YearOfToken == Tok2024 :> 2024 @@ Tok5 :> 5

TimeOfToken ==
    Tok100000 :> <<10, 0, 0>> @@ Tok1230 :> <<12, 30, 0>> @@
    Tok1305 :> <<13, 5, 0>> @@ Tok105PM :> <<1, 5, 0>>

RestTokens == Tokenize(rest)

\* position i holds a month token with a day token before it and a year
\* token and a time token after it
Qualifies(i) ==
    /\ i > 1 /\ i + 2 <= Len(RestTokens)
    /\ RestTokens[i] \in DOMAIN MonOfToken
    /\ RestTokens[i - 1] \in DOMAIN DayOfToken
    /\ RestTokens[i + 1] \in DOMAIN YearOfToken
    /\ RestTokens[i + 2] \in DOMAIN TimeOfToken

QualifyingPositions == {i \in 1..Len(RestTokens) : Qualifies(i)}

FirstQualifying ==
    CHOOSE i \in QualifyingPositions : \A j \in QualifyingPositions : i <= j

\* days from the epoch to 5 Jan 2024 and to 5 Dec 2024
DaysOfDate(m) == IF m = 0 THEN 19727 ELSE 20062

\* C5: submitted_at is present iff some position qualifies; it is then
\* taken from the leftmost qualifying position: day, month, year, minute
\* and second are those of its tokens (seconds 0 when the time token has
\* none), and for a year the clock can represent the instant is that date
\* at the hour handed to std::mktime.
C5_FirstMonthCandidate ==
    dpc = "done" =>
        IF QualifyingPositions = {}
        THEN dt_result = nullopt /\ ~dt_tm.ok
        ELSE LET i == FirstQualifying
                 t == TimeOfToken[RestTokens[i + 2]]
                 y == YearOfToken[RestTokens[i + 1]]
                 m == MonOfToken[RestTokens[i]]
                 d == DayOfToken[RestTokens[i - 1]]
             IN  /\ dt_tm.ok /\ dt_tm.i = i
                 /\ dt_tm.tm.tm_mday = d
                 /\ dt_tm.tm.tm_mon = m
                 /\ dt_tm.tm.tm_year = y - 1900
                 /\ dt_tm.tm.tm_min = t[2]
                 /\ dt_tm.tm.tm_sec = t[3]
                 /\ dt_result.has
                 /\ y = 2024 =>
                        /\ dt_result.t.days
                               = DaysOfDate(m) + dt_tm.tm.tm_hour \div 24
                        /\ dt_result.t.secs
                               = (dt_tm.tm.tm_hour % 24) * 3600 + t[2] * 60 + t[3]

\* two qualifying positions, the left one decides
C5_Witness ==
    /\ dpc = "done"
    /\ Cardinality(QualifyingPositions) = 2
    /\ dt_result.has
    /\ dt_result.t = [days |-> 19727, secs |-> 36000]

\* C6: the hour handed on is the hour of the time token, reinterpreted only
\* when the token after the time token is AM (12 becomes 0) or PM (12 is
\* added unless the hour is 12); "5 Jan 2024 10:00:00 PM" gives hour 22.
C6_AmPmHour ==
    (dpc = "done" /\ dt_tm.ok) =>
        LET i    == dt_tm.i
            h    == TimeOfToken[RestTokens[i + 2]][1]
            next == IF i + 3 <= Len(RestTokens) THEN RestTokens[i + 3] ELSE <<>>
        IN  /\ next = TokAM => dt_tm.tm.tm_hour = (IF h = 12 THEN 0 ELSE h)
            /\ next = TokPM => dt_tm.tm.tm_hour = (IF h = 12 THEN 12 ELSE h + 12)
            /\ next \notin {TokAM, TokPM} => dt_tm.tm.tm_hour = h
            /\ rest = Join(<<Tok5, TokJan, Tok2024, Tok100000, TokPM>>)
                   => dt_tm.tm.tm_hour = 22

C6_Witness ==
    /\ dpc = "done"
    /\ rest = Join(<<Tok5, TokJan, Tok2024, Tok1230, TokPM>>)
    /\ dt_tm.ok
    /\ dt_tm.tm.tm_hour = 12

\* C25: whenever the scan has converted a candidate, the hour it hands to
\* std::mktime after the AM/PM step is within 0..23.
C25_HourInRange ==
    (dpc = "done" /\ dt_tm.ok) => dt_tm.tm.tm_hour \in 0..23

(***************************************************************************)
(* Properties of the queue dialog (SpecDialog)                             *)
(***************************************************************************)
\* the job ids of JobLineA, JobLineB and JobLineC
HP1 == <<"H", "P", "-", "1">>
HP2 == <<"H", "P", "-", "2">>
HP3 == <<"H", "P", "-", "3">>

\* the submission instants of the jobs of JobLines, by job id; the job
\* HP-3 shows none
SubmittedOf ==
    <<"H", "P", "-", "1">> :> At(0) @@ <<"H", "P", "-", "2">> :> At(-60)

\* the seconds from instant t to instant n
SecondsFrom(t, n) == (n.days - t.days) * 86400 + (n.secs - t.secs)

\* the whole minutes elapsed from t to n, none when n lies before t
ElapsedMinutes(t, n) ==
    IF SecondsFrom(t, n) < 0 THEN 0 ELSE SecondsFrom(t, n) \div 60

RECURSIVE DecimalValue(_)
DecimalValue(d) ==
    IF d = <<>> THEN 0
    ELSE 10 * DecimalValue(SubSeq(d, 1, Len(d) - 1)) + DigitValue[d[Len(d)]]

\* d is the decimal numeral of n, without sign and without leading zero
IsNumeral(d, n) ==
    /\ d # <<>>
    /\ \A k \in 1..Len(d) : IsDigit(d[k])
    /\ (Len(d) > 1 => d[1] # "0")
    /\ DecimalValue(d) = n

\* s is "{a}{u} {b}{v}" for the unit letters u and v
IsTwoPart(s, a, u, b, v) ==
    \E i \in 2..(Len(s) - 3) :
        /\ s[i] = u /\ s[i + 1] = " " /\ s[Len(s)] = v
        /\ IsNumeral(SubSeq(s, 1, i - 1), a)
        /\ IsNumeral(SubSeq(s, i + 2, Len(s) - 1), b)

\* s is the age text the contract gives for m whole minutes
IsAgeText(s, m) ==
    IF m < 1 THEN s = <<"<", "1", "m">>
    ELSE IF m <= 59
    THEN s # <<>> /\ s[Len(s)] = "m" /\ IsNumeral(SubSeq(s, 1, Len(s) - 1), m)
    ELSE IF m <= 1439 THEN IsTwoPart(s, m \div 60, "h", m % 60, "m")
    ELSE IsTwoPart(s, m \div 1440, "d", (m % 1440) \div 60, "h")

\* C7: a row of a job without timestamp shows "unknown" with minutes value
\* 0; a row of a job submitted m whole minutes before the clock value of the
\* refresh has minutes value m and shows "<1m" for m < 1, "{m}m" for 1..59,
\* "{h}h {m}m" for 60..1439 and "{d}d {h}h" from 1440 on; 0 shows "<1m", 60
\* shows "1h 0m" and 1440 shows "1d 0h".
C7_AgeText ==
    qpc = "open" =>
        \A k \in 1..Len(m_store) :
            IF m_store[k].job_id \notin DOMAIN SubmittedOf
            THEN /\ m_store[k].age = <<"u", "n", "k", "n", "o", "w", "n">>
                 /\ m_store[k].age_minutes = 0
            ELSE /\ m_store[k].age_minutes
                        = ElapsedMinutes(SubmittedOf[m_store[k].job_id], now)
                 /\ IsAgeText(m_store[k].age, m_store[k].age_minutes)
                 /\ m_store[k].age_minutes = 0
                        => m_store[k].age = <<"<", "1", "m">>
                 /\ m_store[k].age_minutes = 60
                        => m_store[k].age = <<"1", "h", " ", "0", "m">>
                 /\ m_store[k].age_minutes = 1440
                        => m_store[k].age = <<"1", "d", " ", "0", "h">>

\* a refresh an hour after the dialog was opened: a job of 60 minutes next
\* to a job without timestamp
C7_Witness ==
    /\ qpc = "open"
    /\ Len(m_store) = 2
    /\ m_store[1].age_minutes = 60
    /\ m_store[1].age = <<"1", "h", " ", "0", "m">>
    /\ m_store[2].age = <<"u", "n", "k", "n", "o", "w", "n">>

\* C8: a row is flagged iff the threshold is above 0 and the row's minutes
\* value is at least the threshold, and it has the highlight colour iff it
\* is flagged; with threshold 0 no row is flagged, with threshold 10 a row
\* of 10 minutes is flagged and a row of 9 minutes is not.
C8_StaleRule ==
    qpc = "open" =>
        \A k \in 1..Len(m_store) :
            /\ m_store[k].bg_set
                   <=> (m_spin_age > 0 /\ m_store[k].age_minutes >= m_spin_age)
            /\ m_store[k].bg_color = (IF m_store[k].bg_set THEN color ELSE "")
            /\ m_spin_age = 0 => ~m_store[k].bg_set
            /\ (m_spin_age = 10 /\ m_store[k].age_minutes = 10)
                   => m_store[k].bg_set
            /\ (m_spin_age = 10 /\ m_store[k].age_minutes = 9)
                   => ~m_store[k].bg_set

\* threshold 10 set by the spin button, over a row of 9 and a row of 10
\* minutes
C8_Witness ==
    /\ qpc = "open"
    /\ m_spin_age = 10
    /\ cmd_log = <<>>
    /\ Len(m_store) = 2
    /\ m_store[1].age_minutes = 9 /\ ~m_store[1].bg_set
    /\ m_store[2].age_minutes = 10 /\ m_store[2].bg_set

\* C18: the step that changes the highlight threshold issues no command and
\* leaves the status line and the rows in place, each with its job id,
\* owner, age text, age_minutes, status and file; each row's flag and colour
\* are those of its age_minutes against the new threshold.
C18_ThresholdChangeKeepsRows ==
    [][(m_spin_age' # m_spin_age)
       => /\ cmd_log' = <<>>
          /\ m_status' = m_status
          /\ Len(m_store') = Len(m_store)
          /\ \A k \in 1..Len(m_store) :
                 /\ m_store'[k].job_id = m_store[k].job_id
                 /\ m_store'[k].user = m_store[k].user
                 /\ m_store'[k].age = m_store[k].age
                 /\ m_store'[k].age_minutes = m_store[k].age_minutes
                 /\ m_store'[k].status = m_store[k].status
                 /\ m_store'[k].file = m_store[k].file
                 /\ m_store'[k].bg_set
                        <=> (m_spin_age' > 0
                             /\ m_store[k].age_minutes >= m_spin_age')
                 /\ m_store'[k].bg_color
                        = (IF m_store'[k].bg_set THEN color ELSE "")]_vars

\* threshold 11 set by the spin button over a row of 9 and a row of 10
\* minutes: both rows are displayed, neither flagged
C18_Witness ==
    /\ qpc = "open"
    /\ m_spin_age = 11
    /\ cmd_log = <<>>
    /\ Len(m_store) = 2
    /\ m_store[1].age_minutes = 9 /\ ~m_store[1].bg_set
    /\ m_store[2].age_minutes = 10 /\ ~m_store[2].bg_set

AgeUnknown == <<"u", "n", "k", "n", "o", "w", "n">>

\* the row shows a job whose submission lies after the clock value of the
\* refresh that made the row
SubmittedInFuture(row) ==
    /\ row.job_id \in DOMAIN SubmittedOf
    /\ SecondsFrom(SubmittedOf[row.job_id], now) < 0

\* C26: between two callbacks of the open dialog, each row is flagged iff
\* the threshold is positive and the row's age_minutes is at least the
\* threshold; age_minutes is never negative, and 0 for a job submitted after
\* the clock value of the refresh; a row whose age is unknown has
\* age_minutes 0 and is not flagged, whatever the threshold.
C26_RowFlagsAndAges ==
    qpc = "open" =>
        \A k \in 1..Len(m_store) :
            /\ m_store[k].bg_set
                   = (m_spin_age > 0 /\ m_store[k].age_minutes >= m_spin_age)
            /\ m_store[k].age_minutes >= 0
            /\ SubmittedInFuture(m_store[k]) => m_store[k].age_minutes = 0
            /\ m_store[k].job_id = HP3 => m_store[k].age = AgeUnknown
            /\ m_store[k].age = AgeUnknown
                   => (m_store[k].age_minutes = 0 /\ ~m_store[k].bg_set)

\* a refresh at a clock value one minute before the submission of HP-1, and
\* the threshold changed to 9: the row of HP-1 and the row of HP-3, whose
\* submission time is unknown, have age_minutes 0 and are not flagged
C26_Witness ==
    /\ qpc = "open"
    /\ now = At(-60)
    /\ m_spin_age = 9
    /\ Len(m_store) = 2
    /\ m_store[1].job_id = HP1 /\ m_store[1].age_minutes = 0
    /\ ~m_store[1].bg_set
    /\ m_store[2].age = AgeUnknown /\ ~m_store[2].bg_set

(***************************************************************************)
(* Properties of check_cups_status (SpecCups)                              *)
(***************************************************************************)
\* a and b are the same letter in either case, or the same character
SameLetter(a, b) ==
    \/ a = b
    \/ a \in DOMAIN LowerOf /\ LowerOf[a] = b
    \/ b \in DOMAIN LowerOf /\ LowerOf[b] = a

\* s contains phrase, letter case disregarded
ContainsAnyCase(s, phrase) ==
    \E k \in 0..(Len(s) - Len(phrase)) :
        \A i \in 1..Len(phrase) : SameLetter(s[k + i], phrase[i])

RecoverablePhrases == {OutOfPaper, MediaEmptyDash, MediaEmpty}

\* the texts the call obtained
StateObtained == printer_state_raw(Sys)
LongObtained  == printer_long_raw(Sys)

\* the call went into the assessment: the state text shows a disabled queue
AssessmentRan ==
    /\ cpc = "done"
    /\ ~Contains(StateObtained, <<"i", "d", "l", "e">>)
    /\ Contains(StateObtained, <<"d", "i", "s", "a", "b", "l", "e", "d">>)

\* the listing shows a job: it has a line that opens a record
JobsPending == popen_ok /\ HeaderLinesOf(cups_queue) # <<>>

\* the lines of the assessment, after the three lines of the disabled queue
AssessmentLines == SubSeq(m_buffer, 4, Len(m_buffer))

LpstatCommands == {CmdPrinterState, CmdPrinterLong, CmdJobs, CmdJobsUnfiltered}

\* C10: every command check_cups_status has issued when it returns is one
\* of the lpstat queries, none a cupsenable, cupsaccept, cupsdisable or
\* cancel command, whatever the outcome of the assessment.
C10_NoFixExecuted ==
    cpc = "done" =>
        \A k \in 1..Len(cmd_log) :
            /\ cmd_log[k] \in LpstatCommands
            /\ cmd_log[k][1] \notin
                   {CmdResumeQueue[1], CmdPauseQueue[1], CmdCancelAll[1],
                    CmdCancelJob(<<>>)[1]}

\* the eligible outcome, reached with the state, job and detail queries only
C10_Witness ==
    /\ AssessmentRan
    /\ Len(AssessmentLines) = 2
    /\ AssessmentLines[1].tag = "green"
    /\ cmd_log = <<CmdPrinterState, CmdJobs, CmdPrinterLong>>

(***************************************************************************)
(* Properties of the CupsClient calls (SpecClient)                         *)
(***************************************************************************)
\* what the two listing commands print in the surroundings of the call
PrimaryOutput   == m_exec(CmdJobs, Sys)
SecondaryOutput == m_exec(CmdJobsUnfiltered, Sys)

UnknownOptionWords == <<"U", "n", "k", "n", "o", "w", "n", " ", "o", "p",
                        "t", "i", "o", "n">>
InvalidOptionWords == <<"i", "n", "v", "a", "l", "i", "d", " ", "o", "p",
                        "t", "i", "o", "n">>

\* C11: when the output of the filtered listing command holds "Unknown
\* option" anywhere, get_jobs has issued the filtered command and then the
\* unfiltered command, once each, and returns the records of the unfiltered
\* command's output.
C11_FallbackOnUnknownOption ==
    (kpc = "get_jobs" /\ Contains(PrimaryOutput, UnknownOptionWords)) =>
        /\ cmd_log = <<CmdJobs, CmdJobsUnfiltered>>
        /\ ret_jobs = parse_lpstat_jobs(SecondaryOutput)

\* an lpstat without -W over a queue of two jobs: the two jobs are returned,
\* not the record the error line would give
C11_Witness ==
    /\ kpc = "get_jobs"
    /\ cups_old /\ cups_reject = UnknownOptionReply /\ popen_ok
    /\ cups_queue = JobLineA \o JobLineC
    /\ Len(ret_jobs) = 2
    /\ ret_jobs[1].job_id = HP1 /\ ret_jobs[2].job_id = HP3
    /\ parse_lpstat_jobs(PrimaryOutput) # ret_jobs

LowerUnknownWords == <<"u", "n", "k", "n", "o", "w", "n", " ", "o", "p", "t",
                       "i", "o", "n">>

\* get_jobs has fallen back: both commands issued, the second output parsed
FellBack ==
    /\ cmd_log = <<CmdJobs, CmdJobsUnfiltered>>
    /\ ret_jobs = parse_lpstat_jobs(SecondaryOutput)

\* get_jobs has parsed the output of the filtered command and issued no other
ParsedPrimary ==
    /\ cmd_log = <<CmdJobs>>
    /\ ret_jobs = parse_lpstat_jobs(PrimaryOutput)

\* C12 as stated: get_jobs falls back exactly when the output of the filtered
\* command holds "unknown option" or "invalid option", and parses that output
\* with no second command otherwise.
C12_AsStated ==
    kpc = "get_jobs" =>
        IF \/ Contains(PrimaryOutput, LowerUnknownWords)
           \/ Contains(PrimaryOutput, InvalidOptionWords)
        THEN FellBack
        ELSE ParsedPrimary

\* C12: get_jobs falls back exactly when the output of the filtered command
\* holds "Unknown option", with a capital U, or "invalid option", and parses
\* that output with no second command otherwise; "unknown option" in lower
\* case causes no fallback.
C12_FallbackRule ==
    kpc = "get_jobs" =>
        /\ IF \/ Contains(PrimaryOutput, UnknownOptionWords)
              \/ Contains(PrimaryOutput, InvalidOptionWords)
           THEN FellBack
           ELSE ParsedPrimary
        /\ (/\ Contains(PrimaryOutput, LowerUnknownWords)
            /\ ~Contains(PrimaryOutput, UnknownOptionWords)
            /\ ~Contains(PrimaryOutput, InvalidOptionWords)) => ParsedPrimary

\* an lpstat that answers "unknown option" in lower case: no second command,
\* and the error line returned as a job
C12_Witness ==
    /\ kpc = "get_jobs"
    /\ cups_old /\ cups_reject = LowerUnknownReply /\ popen_ok
    /\ cups_queue = JobLineA
    /\ cmd_log = <<CmdJobs>>
    /\ Len(ret_jobs) = 1
    /\ ret_jobs[1].job_id = <<"l", "p", "s", "t", "a", "t", ":">>

\* the cancel requests for single jobs among the commands of the call
IsCancelJob(c) == c[1] = CmdCancelJob(<<>>)[1]
CancelsIssued == SelectSeq(cmd_log, IsCancelJob)

\* the jobs of the snapshot the call has taken that arg_user owns
OwnedByArgUser(j) == j.user = arg_user
MatchingJobs == SelectSeq(get_jobs(Sys), OwnedByArgUser)

\* C13: cancel_all_from_user(user) issues, after the listing it takes, one
\* cancel request for each job of that listing whose owner is user, in
\* listing order and naming the job's id, and no other command; when no job
\* matches it issues no cancel request.
C13_OneCancelPerOwnedJob ==
    kpc = "cancel_all_from_user" =>
        /\ Len(CancelsIssued) = Len(MatchingJobs)
        /\ \A k \in 1..Len(CancelsIssued) :
               CancelsIssued[k] = CmdCancelJob(MatchingJobs[k].job_id)
        /\ cmd_log = get_jobs_commands(Sys) \o CancelsIssued
        /\ (\A k \in 1..Len(get_jobs(Sys)) : get_jobs(Sys)[k].user # arg_user)
               => CancelsIssued = <<>>

\* al's two jobs cancelled in a queue that also holds a job of bo
C13_Witness ==
    /\ kpc = "cancel_all_from_user"
    /\ cups_queue = JobLineA \o JobLineB \o JobLineC
    /\ ~cups_old /\ popen_ok
    /\ arg_user = UserAl
    /\ cmd_log = <<CmdJobs, CmdCancelJob(HP1), CmdCancelJob(HP3)>>

\* the same system with popen succeeding and the listing command printing
\* nothing
RanAndPrintedNothing ==
    [Sys EXCEPT !.popen_ok = TRUE, !.old = FALSE, !.queue = <<>>]

\* C19: when popen fails for the listing command, what execute_command hands
\* to get_jobs differs from what it hands over when the command ran and
\* printed nothing, and what get_jobs returns differs from what it returns
\* for an empty queue.
C19_LaunchFailureSurfaced ==
    (kpc = "get_jobs" /\ ~popen_ok)
        => /\ m_exec(CmdJobs, Sys) # m_exec(CmdJobs, RanAndPrintedNothing)
           /\ ret_jobs # get_jobs(RanAndPrintedNothing)

IsBlank(c) == c \in {" ", "\t", "\r", "\n"}

RECURSIVE StripLeft(_)
StripLeft(s) ==
    IF s # <<>> /\ IsBlank(Head(s)) THEN StripLeft(Tail(s)) ELSE s

RECURSIVE StripRight(_)
StripRight(s) ==
    IF s # <<>> /\ IsBlank(s[Len(s)])
    THEN StripRight(SubSeq(s, 1, Len(s) - 1)) ELSE s

\* the text after the label of a line, without the whitespace around it
HasLabel(line) == find(line, DescriptionLabel) # npos
Remainder(line) ==
    StripRight(StripLeft(
        substr_from(line, find(line, DescriptionLabel) + Len(DescriptionLabel))))

\* the remainders of the labelled lines of the long listing that are not blank
Descriptions ==
    {Remainder(line) : line \in
        {l \in {GetLines(printer_long_raw(Sys))[k] :
                   k \in 1..Len(GetLines(printer_long_raw(Sys)))} : HasLabel(l)}}
        \ {<<>>}

\* C20: get_printer_friendly_name returns the text after the label of a
\* labelled line without its leading and trailing whitespace; when no line
\* has the label, or no labelled line has text after it, it returns the
\* configured printer name.
C20_TrimmedDescriptionOrName ==
    kpc = "get_printer_friendly_name"
        => IF Descriptions # {} THEN ret_name \in Descriptions
           ELSE ret_name = <<PRINTER_NAME>>

(***************************************************************************)
(* Properties of the queue dialog's handlers (SpecQueue)                   *)
(***************************************************************************)
\* a command that changes the queue: cancel one job, cancel all, pause, resume
IsMutating(c) ==
    c[1] \in {CmdCancelJob(<<>>)[1], CmdCancelAll[1], CmdPauseQueue[1],
              CmdResumeQueue[1]}

MutatingIssued(log) == \E k \in 1..Len(log) : IsMutating(log[k])

\* C14: a handler of a mutating action issues its commands only out of the
\* confirmation prompt answered OK; when the prompt is declined the handler
\* issues no command, starts no refresh and leaves the rows, the status
\* line, the timer, the refresh period and the highlight threshold as they
\* were.
C14_ConfirmationFirst ==
    [][/\ (refreshing = "" /\ cmd_log' # cmd_log /\ MutatingIssued(cmd_log'))
          => (qpc = "confirm" /\ resp' = "RESPONSE_OK")
       /\ (qpc = "confirm" /\ qpc' = "open" /\ resp' \in Declines)
          => /\ cmd_log' = <<>>
             /\ refreshing' = ""
             /\ UNCHANGED <<m_store, m_status, selected, timers, m_timer_conn,
                            m_spin_refresh, m_spin_age>>]_vars

\* the prompt of a cancel of the selected job was declined: three rows are
\* still displayed, one selected, and no command was issued
C14_Witness ==
    /\ resp \in Declines /\ qpc = "open" /\ pending = NoPending
    /\ cmd_log = <<>> /\ refreshing = ""
    /\ Len(m_store) = 3 /\ selected = 2
    /\ timers = <<DefaultRefreshPeriod>>

\* a command that lists the jobs
IsListing(c) == c[1] \in {CmdJobs[1], CmdJobsUnfiltered[1]}

AllOf(log, from, to, Is(_)) == \A i \in from..to : Is(log[i])

\* the step in which the refresh of a confirmed action completes
ActionRefreshCompletes == refreshing = "action" /\ refreshing' = ""

\* log is one or more mutating commands, the state query, the job listing
MutationsThenRefresh(log) ==
    \E k \in 2..(Len(log) - 1) :
        /\ AllOf(log, 1, k - 1, IsMutating)
        /\ log[k] = CmdPrinterState
        /\ AllOf(log, k + 1, Len(log), IsListing)

\* C15 as stated: when the refresh of a confirmed action completes, the
\* commands issued since the confirmation are one or more mutating commands,
\* then the state query, then the job listing.
C15_AsStated == [][ActionRefreshCompletes => MutationsThenRefresh(cmd_log')]_vars

\* log is the job listing cancel_all_from_user takes, zero or more cancel
\* requests, the state query, the job listing
ListingCancelsThenRefresh(log) ==
    \E n \in 1..2 : \E k \in (n + 1)..(Len(log) - 1) :
        /\ AllOf(log, 1, n, IsListing)
        /\ AllOf(log, n + 1, k - 1, IsCancelJob)
        /\ log[k] = CmdPrinterState
        /\ AllOf(log, k + 1, Len(log), IsListing)

\* C15: the step that leaves the prompt with OK issues the action's commands
\* and starts the refresh with the state query as the last command; nothing of
\* the dialog runs before that refresh completes; when it completes the
\* commands are the mutating commands, the state query and the job listing in
\* this order, where cancel by user issues its own job listing first and as
\* many cancel requests as that listing has jobs of the owner, possibly none.
C15_RefreshAfterMutation ==
    [][/\ (qpc = "confirm" /\ qpc' = "open" /\ resp' = "RESPONSE_OK")
          => /\ refreshing' = "action"
             /\ cmd_log'[Len(cmd_log')] = CmdPrinterState
             /\ ~MutatingIssued(<<cmd_log'[Len(cmd_log')]>>)
       /\ refreshing = "action"
          => \/ ActionRefreshCompletes
             \/ UNCHANGED <<cmd_log, m_buffer, m_store, m_status, qpc,
                            selected, m_spin_refresh, timers, m_timer_conn,
                            pending, resp, refreshing>>
       /\ ActionRefreshCompletes
          => \/ MutationsThenRefresh(cmd_log')
             \/ ListingCancelsThenRefresh(cmd_log')]_vars

\* a confirmed cancel by user has completed its refresh: its own listing,
\* the cancel requests of the owner's two jobs, the state query, the listing
C15_Witness ==
    /\ resp = "RESPONSE_OK" /\ qpc = "open" /\ refreshing = ""
    /\ cmd_log = <<CmdJobs, CmdCancelJob(HP1), CmdCancelJob(HP3),
                   CmdPrinterState, CmdJobs>>

\* the timeout sources the current refresh period calls for
TimerOfPeriod(seconds) == IF seconds > 0 THEN <<seconds>> ELSE <<>>

\* the dialog exists: it is shown, with or without a prompt over it
DialogOpen == qpc \in {"open", "confirm"}

OneTimerOfCurrentPeriod ==
    DialogOpen
        => /\ Len(timers) <= 1
           /\ timers = TimerOfPeriod(m_spin_refresh)
           /\ m_timer_conn = Len(timers)

RefreshStarts == refreshing' # "" /\ refreshing' # refreshing

\* a step in which the running refresh completes
RefreshCompletes == refreshing # "" /\ refreshing' = ""

\* the listing text the completing refresh has read: the secondary listing
\* when the primary command was rejected
ListingRead == IF cups_old THEN SecondaryOutput ELSE PrimaryOutput

\* C17: a refresh starts only while no refresh is in progress, with the rows
\* of the previous snapshot cleared; the step that completes it leaves one row
\* per record parsed from the listing it has read, with the record's id and
\* owner, in listing order, and nothing else.
C17_RefreshesDoNotOverlap ==
    [][/\ RefreshStarts => (refreshing = "" /\ m_store' = <<>>)
       /\ RefreshCompletes
          => LET js == parse_lpstat_jobs(ListingRead)
             IN  /\ Len(m_store') = Len(js)
                 /\ \A k \in 1..Len(js) :
                        /\ m_store'[k].job_id = js[k].job_id
                        /\ m_store'[k].user = js[k].user
                        /\ m_store'[k].age = fmt_age(js[k].submitted_at, now).text
                        /\ m_store'[k].status = js[k].status]_vars

\* a confirmed cancel of all jobs has completed its refresh over the emptied
\* queue: no row of the previous snapshot is displayed
C17_Witness ==
    /\ refreshing = "" /\ resp = "RESPONSE_OK" /\ qpc = "open"
    /\ cmd_log = <<CmdCancelAll, CmdPrinterState, CmdJobs>>
    /\ cups_queue = <<>>
    /\ m_store = <<>>

(***************************************************************************)
(* Properties of the commands the functions issue (SpecClient)             *)
(***************************************************************************)
ReadFunctions ==
    {"printer_state_raw", "printer_long_raw", "get_printer_friendly_name",
     "has_recoverable_reason_hint", "queue_disabled", "get_jobs",
     "set_status_line", "refresh"}

MutatingFunctions ==
    {"cancel_job", "cancel_all", "cancel_all_from_user", "pause_queue",
     "resume_queue"}

\* an lpstat command: the state query, the long listing or a job listing
IsLpstat(c) ==
    c[1] \in {CmdPrinterState[1], CmdPrinterLong[1], CmdJobs[1],
              CmdJobsUnfiltered[1]}

\* C21: a read function has issued lpstat commands only, at least one and
\* none of them mutating; mutating commands have been issued only by
\* cancel_job, cancel_all, cancel_all_from_user, pause_queue and resume_queue,
\* whose other commands are the job listing of cancel_all_from_user.
C21_ReadsOnlyList ==
    /\ kpc \in ReadFunctions
           => /\ cmd_log # <<>>
              /\ \A k \in 1..Len(cmd_log) :
                     IsLpstat(cmd_log[k]) /\ ~IsMutating(cmd_log[k])
    /\ MutatingIssued(cmd_log) => kpc \in MutatingFunctions
    /\ kpc \in MutatingFunctions
           => \A k \in 1..Len(cmd_log) :
                  IsMutating(cmd_log[k]) \/ IsListing(cmd_log[k])

\* the dialog's refresh has run against an lpstat that rejects -W: the state
\* query and both job listings, nothing else
C21_Witness ==
    /\ kpc = "refresh" /\ popen_ok /\ cups_old
    /\ cups_queue # <<>>
    /\ cmd_log = <<CmdPrinterState, CmdJobs, CmdJobsUnfiltered>>

(***************************************************************************)
(* Properties of the queue dialog's lifetime (SpecQueue)                   *)
(***************************************************************************)
\* the auto-refresh timeout sources the main loop holds
LiveTimers == Len(timers) + orphans

OpenDialogs == IF DialogOpen THEN 1 ELSE 0

\* C22: while the program runs, the main loop holds no more auto-refresh
\* sources than there are open dialogs, and while no dialog is open no
\* command is issued.
C22_NoTimerOutlivesDialog ==
    qpc # "crashed"
        => /\ LiveTimers <= OpenDialogs
           /\ qpc = "closed" => cmd_log = <<>>

\* the step in which cancel_selected or cancel_all_from_user opens its prompt
PromptOpens ==
    /\ qpc = "open" /\ qpc' = "confirm"
    /\ pending'.action \in {"cancel_selected", "cancel_all_from_user"}

\* the step in which the prompt of the handler action is accepted
PromptAccepted(action) ==
    /\ qpc = "confirm" /\ qpc' = "open" /\ resp' = "RESPONSE_OK"
    /\ pending.action = action

\* the cancel requests for the jobs of owner in the listing js, in order
RECURSIVE CancelsFor(_, _)
CancelsFor(js, owner) ==
    IF js = <<>> THEN <<>>
    ELSE (IF Head(js).user = owner THEN <<CmdCancelJob(Head(js).job_id)>>
          ELSE <<>>) \o CancelsFor(Tail(js), owner)

\* C23: the handler keeps the job id and the owner of the row that is
\* selected when its prompt opens, whatever refresh replaces the rows and
\* drops the selection while the prompt is shown; when the prompt is accepted
\* cancel selected requests the cancel of that job id and nothing else, and
\* cancel by user requests the cancel of that owner's jobs.
C23_TargetsRowOfInvocation ==
    [][/\ PromptOpens
          => /\ selected # 0
             /\ pending'.user = m_store[selected].user
             /\ pending'.action = "cancel_selected"
                    => pending'.job_id = m_store[selected].job_id
       /\ (qpc = "confirm" /\ qpc' = "confirm") => pending' = pending
       /\ PromptAccepted("cancel_selected")
          => SelectSeq(cmd_log', IsMutating) = <<CmdCancelJob(pending.job_id)>>
       /\ PromptAccepted("cancel_all_from_user")
          => SelectSeq(cmd_log', IsMutating)
                 = CancelsFor(get_jobs(Sys), pending.user)]_vars

\* the prompt of a cancel of job HP-2 is shown and a timer-driven refresh has
\* replaced the three rows by the one row of job HP-1, none selected
C23_Witness ==
    /\ qpc = "confirm" /\ refreshing = ""
    /\ pending.action = "cancel_selected" /\ pending.job_id = HP2
    /\ cmd_log = <<CmdPrinterState, CmdJobs>>
    /\ timers # <<>> /\ orphans = 0
    /\ Len(m_store) = 1 /\ m_store[1].job_id = HP1 /\ selected = 0

\* what /bin/sh takes literally from a command line s: the characters
\* between the first single quote and the next one
FirstQuotedWord(s) ==
    substr(s, find(s, <<"'">>) + 1,
           FindFrom(s, <<"'">>, find(s, <<"'">>) + 1) - find(s, <<"'">>) - 1)

\* what follows the quote that closes the first quoted word of s
AfterQuotedWord(s) ==
    substr_from(s, FindFrom(s, <<"'">>, find(s, <<"'">>) + 1) + 1)

\* C27: in the command cancel_job has issued for a job id of the listing,
\* the single-quoted word is the job id, and what follows its closing quote
\* is the redirection " 2>&1" and nothing of the job id.
C27_JobIdIsOneQuotedWord ==
    kpc = "cancel_job" =>
        /\ cmd_log = <<CmdCancelJob(arg_job_id)>>
        /\ FirstQuotedWord(cancel_job_text(arg_job_id)) = arg_job_id
        /\ AfterQuotedWord(cancel_job_text(arg_job_id))
               = <<" ", "2", ">", "&", "1">>

(***************************************************************************)
(* Properties of the output execute_command returns (SpecCups)             *)
(***************************************************************************)
\* s without the digits it starts with
RECURSIVE AfterDigits(_)
AfterDigits(s) ==
    IF s # <<>> /\ IsDigit(Head(s)) THEN AfterDigits(Tail(s)) ELSE s

\* s starts with a colour sequence: ESC, '[', digits, 'm'
StartsColour(s) ==
    /\ Len(s) >= 3 /\ s[1] = ESC /\ s[2] = "["
    /\ AfterDigits(SubSeq(s, 3, Len(s))) # <<>>
    /\ Head(AfterDigits(SubSeq(s, 3, Len(s)))) = "m"

\* s with every colour sequence taken out and every other character kept
\* in its place
RECURSIVE WithoutColour(_)
WithoutColour(s) ==
    IF s = <<>> THEN <<>>
    ELSE IF StartsColour(s)
    THEN WithoutColour(Tail(AfterDigits(SubSeq(s, 3, Len(s)))))
    ELSE <<Head(s)>> \o WithoutColour(Tail(s))

\* the commands of check_cups_status have run with raw output off and
\* "Strip ANSI globally" on
StrippedGlobally ==
    cpc = "done" /\ popen_ok /\ ~m_show_raw /\ m_strip_global

\* C28: with raw output off and "Strip ANSI globally" on, what
\* execute_command returns for each command that has run is the command's
\* output without its colour sequences, every other character in its place.
C28_ColourCodesRemoved ==
    StrippedGlobally =>
        \A i \in DOMAIN cmd_log :
            execute_command(cmd_log[i], FALSE, Sys)
                = WithoutColour(Reply(cmd_log[i], Sys))

(***************************************************************************)
(* Specification of the configuration file and the continuous wake mode    *)
(*                                                                         *)
(* The constructor of PrinterDiagnostic calls load_config, sets up the     *)
(* widgets, connects the handlers and starts the wake timer; the handlers  *)
(* of the wake check box, of the interval spin button and of signal_hide   *)
(* run on the main loop's thread, as does the wake timer's callback.       *)
(***************************************************************************)
\* g_key_file_get_boolean: "true" and "1" are true, "false" and "0" are
\* false, a key that is not there or any other value throws
get_boolean(kf, group, key) ==
    IF ~kf.entries[<<group, key>>].present
    THEN [thrown |-> TRUE, value |-> FALSE]
    ELSE IF kf.entries[<<group, key>>].value \in {<<"t", "r", "u", "e">>, <<"1">>}
    THEN [thrown |-> FALSE, value |-> TRUE]
    ELSE IF kf.entries[<<group, key>>].value \in {<<"f", "a", "l", "s", "e">>, <<"0">>}
    THEN [thrown |-> FALSE, value |-> FALSE]
    ELSE [thrown |-> TRUE, value |-> FALSE]

\* the decimal digits ds read as a number
RECURSIVE DigitsValue(_)
DigitsValue(ds) ==
    IF ds = <<>> THEN 0
    ELSE DigitsValue(SubSeq(ds, 1, Len(ds) - 1)) * 10
             + DigitValue[ds[Len(ds)]]

IsDecimal(ds) == ds # <<>> /\ \A i \in DOMAIN ds : IsDigit(ds[i])

\* g_key_file_get_integer: an optional sign and decimal digits, nothing
\* after them; a key that is not there or any other value throws
get_integer(kf, group, key) ==
    IF ~kf.entries[<<group, key>>].present
    THEN [thrown |-> TRUE, value |-> 0]
    ELSE IF IsDecimal(kf.entries[<<group, key>>].value)
    THEN [thrown |-> FALSE,
          value |-> DigitsValue(kf.entries[<<group, key>>].value)]
    ELSE IF /\ kf.entries[<<group, key>>].value # <<>>
            /\ Head(kf.entries[<<group, key>>].value) = "-"
            /\ IsDecimal(Tail(kf.entries[<<group, key>>].value))
    THEN [thrown |-> FALSE,
          value |-> -DigitsValue(Tail(kf.entries[<<group, key>>].value))]
    ELSE [thrown |-> TRUE, value |-> 0]

\* the get_boolean or get_integer call of load_config for the key k
get_value(kf, k) ==
    IF k.member = "m_wake_interval_minutes"
    THEN get_integer(kf, k.group, k.key)
    ELSE get_boolean(kf, k.group, k.key)

\* the assignments of the try block from the key Head(ks) on: each member
\* is assigned as its key is read, the first throw ends the block
RECURSIVE load_keys(_, _, _)
load_keys(kf, s, ks) ==
    IF ks = <<>> THEN s
    ELSE IF get_value(kf, Head(ks)).thrown THEN s
    ELSE load_keys(kf,
                   [s EXCEPT ![Head(ks).member] = get_value(kf, Head(ks)).value],
                   Tail(ks))

\* the members after load_config, s being the members before
load_config(kf, s) == IF ~kf.loads THEN s ELSE load_keys(kf, s, LoadOrder)

\* the value text set_boolean and set_integer write for the member m
set_value(s, m) ==
    IF m = "m_wake_interval_minutes" THEN to_string(s[m])
    ELSE IF s[m] THEN <<"t", "r", "u", "e">> ELSE <<"f", "a", "l", "s", "e">>

\* the file save_config writes for the members s
save_config(s) ==
    [loads |-> TRUE,
     entries |-> [k \in ConfigKeys |->
                     Entry(set_value(s,
                         LoadOrder[CHOOSE i \in DOMAIN LoadOrder :
                             <<LoadOrder[i].group, LoadOrder[i].key>> = k]
                         .member))]]

\* the five members
Settings ==
    [m_show_raw |-> m_show_raw, m_strip_global |-> m_strip_global,
     m_strip_hplip |-> m_strip_hplip, m_wake_enabled |-> m_wake_enabled,
     m_wake_interval_minutes |-> m_wake_interval_minutes]

\* update_wake_status with the members enabled and minutes and the
\* connection conn; the clock's text after "Last wake: " is left out
update_wake_status(enabled, minutes, conn) ==
    IF enabled /\ conn # 0
    THEN <<"<span foreground='green'>Status: <b>ACTIVE</b></span>  |  ",
           "Interval: ", to_string(minutes), " min  |  ", "Last wake: ">>
    ELSE <<"<span foreground='red'>Status: <b>DISABLED</b></span>">>

\* [timers, m_timer_conn] after stop_wake_timer()
stop_wake_timer(tms, conn) ==
    [timers |-> disconnect(tms, conn), m_timer_conn |-> 0]

\* [timers, m_timer_conn] after start_wake_timer() with the interval minutes
start_wake_timer(tms, conn, minutes) ==
    IF minutes <= 0 THEN stop_wake_timer(tms, conn)
    ELSE connect_seconds(stop_wake_timer(tms, conn).timers, minutes * 60)

\* the command of send_wake_silent
CmdWake ==
    <<"printf '\\x1B%%-12345X@PJL\\r\\n@PJL INFO STATUS\\r\\n\\x1B%%-12345X\\r\\n' | nc ",
      "192.168.4.68", " ", "9100", " -w 3 2>/dev/null">>

\* value texts of the boolean keys and of the key interval_minutes
BoolTexts == {<<"t", "r", "u", "e">>, <<"0">>, <<"y", "e", "s">>}
IntTexts  == {<<"5">>, <<"0">>, <<"-", "1">>, <<"3", "0">>, <<"9", "0">>, <<"5",
                                                                            "m">>}

\* the files the program starts with: none, and those that hold or lack
\* each key
ConfigFiles ==
    {NoFile} \cup
    {[loads |-> TRUE,
      entries |-> [k \in ConfigKeys |->
                      IF k = <<"wake", "interval_minutes">> THEN i ELSE b[k]]] :
        b \in [ConfigKeys -> {NoEntry} \cup {Entry(t) : t \in BoolTexts}],
        i \in {NoEntry} \cup {Entry(t) : t \in IntTexts}}

\* the values the user sets the interval spin button to
WakeIntervals == {1, 10, 60}

InitWake ==
    /\ ParseIdle /\ DateIdle /\ CupsIdle /\ DiagIdle /\ DialogIdle
    /\ ClientIdle /\ QueueIdle
    /\ cfg_file \in ConfigFiles
    /\ m_wake_enabled = DefaultSettings.m_wake_enabled
    /\ m_wake_interval_minutes = DefaultSettings.m_wake_interval_minutes
    /\ m_spin_wake_interval = 1
    /\ wake_timers = <<>> /\ m_wake_timer_conn = 0
    /\ m_lbl_wake_status = <<"Status: Disabled">>
    /\ wpc = "start"

wake_frame ==
    <<parse_vars, date_vars, dialog_vars, client_vars, queue_vars, cups_state,
      cups_long, cups_queue, cups_old, popen_ok, m_buffer, cups_ready, cpc>>

\* the members are assigned what s holds
SetSettings(s) ==
    /\ m_show_raw' = s.m_show_raw
    /\ m_strip_global' = s.m_strip_global
    /\ m_strip_hplip' = s.m_strip_hplip
    /\ m_wake_enabled' = s.m_wake_enabled
    /\ m_wake_interval_minutes' = s.m_wake_interval_minutes

\* the constructor's call of load_config
LoadConfig ==
    /\ wpc = "start"
    /\ SetSettings(load_config(cfg_file, Settings))
    /\ wpc' = "loaded"
    /\ UNCHANGED <<cfg_file, m_spin_wake_interval, wake_timers,
                   m_wake_timer_conn, m_lbl_wake_status, cmd_log>>
    /\ UNCHANGED wake_frame

\* the value a spin button of the range lo..hi takes for set_value(v)
Clamp(v, lo, hi) == IF v < lo THEN lo ELSE IF v > hi THEN hi ELSE v

\* the rest of the constructor, no handler being connected while the
\* widgets are set, and the window's being shown by Gtk::Application::run
Construct ==
    /\ wpc = "loaded"
    /\ m_spin_wake_interval' = Clamp(m_wake_interval_minutes, 1, 60)
    /\ IF m_wake_enabled
       THEN /\ wake_timers' = start_wake_timer(wake_timers, m_wake_timer_conn,
                                  m_wake_interval_minutes).timers
            /\ m_wake_timer_conn' = start_wake_timer(wake_timers,
                                  m_wake_timer_conn,
                                  m_wake_interval_minutes).m_timer_conn
            /\ m_lbl_wake_status' = update_wake_status(m_wake_enabled,
                                  m_wake_interval_minutes,
                                  start_wake_timer(wake_timers,
                                      m_wake_timer_conn,
                                      m_wake_interval_minutes).m_timer_conn)
       ELSE UNCHANGED <<wake_timers, m_wake_timer_conn, m_lbl_wake_status>>
    /\ wpc' = "shown"
    /\ UNCHANGED <<cfg_file, m_show_raw, m_strip_global, m_strip_hplip,
                   m_wake_enabled, m_wake_interval_minutes, cmd_log>>
    /\ UNCHANGED wake_frame

\* the handler of m_chk_wake_enabled's signal_toggled
ToggleWake ==
    /\ wpc = "shown"
    /\ m_wake_enabled' = ~m_wake_enabled
    /\ IF ~m_wake_enabled
       THEN /\ wake_timers' = start_wake_timer(wake_timers, m_wake_timer_conn,
                                  m_wake_interval_minutes).timers
            /\ m_wake_timer_conn' = start_wake_timer(wake_timers,
                                  m_wake_timer_conn,
                                  m_wake_interval_minutes).m_timer_conn
            /\ m_lbl_wake_status' = update_wake_status(TRUE,
                                  m_wake_interval_minutes,
                                  start_wake_timer(wake_timers,
                                      m_wake_timer_conn,
                                      m_wake_interval_minutes).m_timer_conn)
       ELSE /\ wake_timers' = stop_wake_timer(wake_timers,
                                  m_wake_timer_conn).timers
            /\ m_wake_timer_conn' = 0
            /\ m_lbl_wake_status' = update_wake_status(FALSE,
                                  m_wake_interval_minutes, 0)
    /\ cfg_file' = save_config([Settings EXCEPT
                                   !.m_wake_enabled = ~m_wake_enabled])
    /\ UNCHANGED <<m_show_raw, m_strip_global, m_strip_hplip,
                   m_wake_interval_minutes, m_spin_wake_interval, wpc,
                   cmd_log>>
    /\ UNCHANGED wake_frame

\* the handler of m_spin_wake_interval's signal_value_changed; the spin
\* button is sensitive while the check box is active
WakeIntervalChanged ==
    /\ wpc = "shown"
    /\ m_wake_enabled
    /\ \E v \in WakeIntervals \ {m_spin_wake_interval} :
        /\ m_spin_wake_interval' = v
        /\ m_wake_interval_minutes' = v
        /\ wake_timers' = start_wake_timer(wake_timers, m_wake_timer_conn,
                              v).timers
        /\ m_wake_timer_conn' = start_wake_timer(wake_timers,
                              m_wake_timer_conn, v).m_timer_conn
        /\ m_lbl_wake_status' = update_wake_status(m_wake_enabled, v,
                              start_wake_timer(wake_timers,
                                  m_wake_timer_conn, v).m_timer_conn)
        /\ cfg_file' = save_config([Settings EXCEPT
                                       !.m_wake_interval_minutes = v])
    /\ UNCHANGED <<m_show_raw, m_strip_global, m_strip_hplip, m_wake_enabled,
                   wpc, cmd_log>>
    /\ UNCHANGED wake_frame

\* a wake timeout source fires: send_wake_silent
WakeTimerFires ==
    /\ wpc = "shown"
    /\ wake_timers # <<>>
    /\ cmd_log' = <<CmdWake>>
    /\ m_lbl_wake_status' = update_wake_status(m_wake_enabled,
                                m_wake_interval_minutes, m_wake_timer_conn)
    /\ UNCHANGED <<cfg_file, m_show_raw, m_strip_global, m_strip_hplip,
                   m_wake_enabled, m_wake_interval_minutes,
                   m_spin_wake_interval, wake_timers, m_wake_timer_conn, wpc>>
    /\ UNCHANGED wake_frame

\* the window is hidden (Exit, or the window's close button): the handler of
\* signal_hide, after which Gtk::Application::run returns
WindowHides ==
    /\ wpc = "shown"
    /\ wake_timers' = stop_wake_timer(wake_timers, m_wake_timer_conn).timers
    /\ m_wake_timer_conn' = 0
    /\ m_lbl_wake_status' = update_wake_status(m_wake_enabled,
                                m_wake_interval_minutes, 0)
    /\ cfg_file' = save_config(Settings)
    /\ wpc' = "hidden"
    /\ UNCHANGED <<m_show_raw, m_strip_global, m_strip_hplip, m_wake_enabled,
                   m_wake_interval_minutes, m_spin_wake_interval, cmd_log>>
    /\ UNCHANGED wake_frame

NextWake ==
    \/ LoadConfig
    \/ Construct
    \/ ToggleWake
    \/ WakeIntervalChanged
    \/ WakeTimerFires
    \/ WindowHides

SpecWake == InitWake /\ [][NextWake]_vars

(***************************************************************************)
(* Properties of load_config (SpecWake)                                    *)
(***************************************************************************)
\* the value texts get_boolean and get_integer take
WellFormed(k, t) ==
    IF k = <<"wake", "interval_minutes">>
    THEN t \in {<<"5">>, <<"0">>, <<"-", "1">>, <<"3", "0">>, <<"9", "0">>}
    ELSE t \in {<<"t", "r", "u", "e">>, <<"f", "a", "l", "s", "e">>, <<"1">>, <<"0">>}

\* reading the file kf fails: it cannot be loaded, or a key is missing or
\* malformed
ReadFails(kf) ==
    \/ ~kf.loads
    \/ \E k \in ConfigKeys :
        ~kf.entries[k].present \/ ~WellFormed(k, kf.entries[k].value)

\* C29: after load_config has read a file whose reading fails, every
\* setting has its default value.
C29_DefaultsKeptOnFailure ==
    wpc = "loaded" /\ ReadFails(cfg_file) => Settings = DefaultSettings

(***************************************************************************)
(* Properties of the wake timer (SpecWake)                                 *)
(***************************************************************************)
\* C30: once the window has been shown there is at most one wake timer, a
\* wake timer is there only while wake mode is enabled, and while wake mode
\* is enabled and the window is shown the one wake timer has the period of
\* the current interval.
C30_WakeTimerFollowsMode ==
    wpc \in {"shown", "hidden"} =>
        /\ Len(wake_timers) <= 1
        /\ wake_timers # <<>> => m_wake_enabled
        /\ m_wake_enabled /\ wpc = "shown"
               => wake_timers = <<m_wake_interval_minutes * 60>>

====
